---------------------------- MODULE Spec2Model ----------------------------
(***************************************************************************)
(* A model of the PUAA tools of openrelay-tools: the property model and    *)
(* the binary PUAA codec of tools/pypuaa.py (PuaaTable.compile and         *)
(* PuaaTable.decompile), the font container writer writePUAA, and the      *)
(* header computation it shares with TtfFile.write of tools/ttfhack.py.    *)
(*                                                                         *)
(* Representation.  A byte string is a sequence of numbers in 0..255.  A   *)
(* Python str is a sequence of code points, and None is the one-element    *)
(* sequence None.  A Python integer that is packed into, or unpacked from, *)
(* a 32-bit field is a record [hi, lo] of two 16-bit limbs, its value      *)
(* being hi * 65536 + lo, so that sums wrap modulo 2^32 exactly as the     *)
(* code's "& UINT_MAX" makes them; small cursors (offsets into the blob or *)
(* the file, lengths, counts) are plain numbers.  The fields of a record    *)
(* are written in the order TLC keeps them in.                             *)
(***************************************************************************)
EXTENDS Integers, Sequences, FiniteSets, TLC

VARIABLES
    table,        \* the PuaaTable under construction, then compiled in place
    tableBefore,  \* the table as it was when compile() was called
    data,         \* the blob compile() returned (testPUAA's data)
    fresh,        \* the PuaaTable decompile() filled from data
    comp,         \* what fresh.compile() returned (testPUAA's comp)
    err,          \* the exception that ended the pipeline, "" when none
    pc,           \* where the codec pipeline stands
    inFile,       \* the bytes of the input font of writePUAA
    inTables,     \* the tables the input font was made of, in payload order
    puaaArg,      \* writePUAA's puaa argument (a PuaaTable, or NoTable)
    inGiven,      \* whether writePUAA was given an inpath
    outFile,      \* the bytes writePUAA wrote
    fpc,          \* where the font writer stands
    numTables,    \* the number of tables a header is computed for
    hdr,          \* the header writePUAA / TtfFile.write packed for numTables
    hpc,          \* which writer packed hdr
    tpuaa,         \* the PuaaTable the text codecs compile into
    tpuaaBefore,   \* the table the last call was made on, as it was before
    tblob,        \* the blob tpuaa.compile() returned last
    tops,         \* the calls made on the table so far
    tpaths,       \* the paths compilePUAA was given, and the listing
    tdata,        \* the blob the last decompile was given
    terr,         \* the exception that ended the last call, "" when none
    tout,         \* the lines the last codec.decompile printed
    lkEntries,    \* the entries of the subtable that is looked up
    lkCp,         \* the code point looked up
    lkValue,      \* what propertyValue(lkCp) returned
    lkMap,        \* what mapFromEntries(lkEntries) returned
    lkPc,         \* which of the two has been called
    dparser,      \* the DataParser of udparser.py
    mcalls,       \* the calls of processFile made so far
    merr,         \* the exception that ended the last call, and its line
    mpc,          \* whether parseArgs has been called
    gmMap,        \* the map the table was filled from, empty when from a file
    gmFile,       \* the lines the table was filled from, none when from a map
    gmCall,       \* the call that filled the table
    gmTable,      \* the PuaaTable the entries were appended to
    gmRuns,       \* what runsFromEntries returned, and for which subtable
    gmBlob,       \* the blob gmTable.compile() returned
    gmFresh,      \* the fresh table gmBlob was decompiled into
    gmErr,        \* the exception that ended the last call, "" when none
    gmPc,         \* how far the calls on gmTable have got
    cvCall,       \* the conversion called, or DecimalEntry for a compile
    cvIn,         \* the integer given to it
    cvOut,        \* what the conversion returned, or the blob of the compile
    cvBack,       \* what the opposite conversion, or the decompile, made of cvOut
    cvErr,        \* the exception that ended the last call, "" when none
    cvPc,         \* how far the calls have got
    agBlobs,      \* the blobs the later table.compile() calls returned
    agErrs,       \* the exceptions that ended them, "" when none
    cpFiles,      \* the bytes of the file of each name, None when there is none
    cpBefore,     \* the files as the copy command found them
    cpArgs,       \* the file names given with -d, -i and -o
    cpErr,        \* the exception or message that ended the command
    cpPc,         \* whether the copy command has run
    hkFiles,      \* the bytes or the lines of the file of each path, None when there is none
    hkTtf,        \* the TtfFile: cmd.ttf, or the one the library was called on
    hkBefore,     \* the TtfFile as the last write found it
    hkChanged,    \* cmd.changed
    hkError,      \* cmd.error
    hkExc,        \* the exception that ended the program, "" when none
    hkLog,        \* what the calls made so far have done
    hkArgs,       \* the arguments of the command line processed so far
    hkPc          \* how far the program has got

vars == <<table, tableBefore, data, fresh, comp, err, pc,
          inFile, inTables, puaaArg, inGiven, outFile, fpc,
          numTables, hdr, hpc,
          tpuaa, tpuaaBefore, tblob, tops, tpaths, tdata, terr, tout,
          lkEntries, lkCp, lkValue, lkMap, lkPc,
          dparser, mcalls, merr, mpc,
          gmMap, gmFile, gmCall, gmTable, gmRuns, gmBlob, gmFresh, gmErr, gmPc,
          cvCall, cvIn, cvOut, cvBack, cvErr, cvPc,
          agBlobs, agErrs,
          cpFiles, cpBefore, cpArgs, cpErr, cpPc,
          hkFiles, hkTtf, hkBefore, hkChanged, hkError, hkExc, hkLog, hkArgs, hkPc>>

codecVars == <<table, tableBefore, data, fresh, comp, err, pc>>
fontVars == <<inFile, inTables, puaaArg, inGiven, outFile, fpc>>
headerVars == <<numTables, hdr, hpc>>
textVars == <<tpuaa, tpuaaBefore, tblob, tops, tpaths, tdata, terr, tout>>
lookupVars == <<lkEntries, lkCp, lkValue, lkMap, lkPc>>
mergeVars == <<dparser, mcalls, merr, mpc>>
mapVars == <<gmMap, gmFile, gmCall, gmTable, gmRuns, gmBlob, gmFresh, gmErr, gmPc>>
convVars == <<cvCall, cvIn, cvOut, cvBack, cvErr, cvPc>>
againVars == <<agBlobs, agErrs>>
copyVars == <<cpFiles, cpBefore, cpArgs, cpErr, cpPc>>
hackVars == <<hkFiles, hkTtf, hkBefore, hkChanged, hkError, hkExc, hkLog, hkArgs, hkPc>>

----------------------------------------------------------------------------
(* Bounds of the model.                                                    *)

\* the most entries a table is given before it is compiled
MaxEntries == 2
\* the most tables an input font is made of
MaxFontTables == 2
\* the largest number of tables a header is computed for
MaxNumTables == 4200
\* the most calls made on the table of the text pipeline
MaxCalls == 3
\* the most entries of a subtable that is looked up
MaxLookupEntries == 2

----------------------------------------------------------------------------
(* Program constants.                                                      *)

SINGLE == 1
MULTIPLE == 2
BOOLEAN_ == 3
DECIMAL == 4
HEXADECIMAL == 5
HEXMULTIPLE == 6
HEXSEQUENCE == 7
CASEMAPPING == 8
NAMEALIAS == 9

U32(h, l) == [hi |-> h, lo |-> l]

\* 0x50554141, 0x68656164, 0xB1B0AFBA, 0x80000000, 0xFFFFFFFF
PUAA == U32(20565, 16705)
HEAD == U32(26725, 24932)
CHKSUM == U32(45488, 44986)
INT_MIN == U32(32768, 0)
UINT_MAX == U32(65535, 65535)
NULLS == <<0, 0, 0, 0>>

None == <<-1>>

----------------------------------------------------------------------------
(* Integers and the struct formats.                                        *)

Min(a, b) == IF a < b THEN a ELSE b

\* a small non-negative number as a Python integer
IntOf(n) == U32(n \div 65536, n % 65536)
\* a Python integer known to be small, as a number
NatOf(v) == v.hi * 65536 + v.lo

IsU32(v) == 0 <= v.hi /\ v.hi <= 65535
LessInt(a, b) == a.hi < b.hi \/ (a.hi = b.hi /\ a.lo < b.lo)

\* (a + b) & UINT_MAX
AddU32(a, b) ==
    LET l == a.lo + b.lo
    IN  U32((a.hi + b.hi + l \div 65536) % 65536, l % 65536)

\* (a - b) & UINT_MAX
SubU32(a, b) ==
    LET l == a.lo - b.lo
        borrow == IF l < 0 THEN 1 ELSE 0
    IN  U32((a.hi - b.hi - borrow) % 65536, l % 65536)

\* data[a:b] of Python: the bytes at 0-based positions a .. b-1 that exist
Slice(d, a, b) == SubSeq(d, a + 1, Min(b, Len(d)))

byteStruct_pack(n) == <<n>>
shortStruct_pack(n) == <<n \div 256, n % 256>>
intStruct_pack(v) == <<v.hi \div 256, v.hi % 256, v.lo \div 256, v.lo % 256>>
shortStruct_unpack(d) == d[1] * 256 + d[2]
intStruct_unpack(d) == U32(d[1] * 256 + d[2], d[3] * 256 + d[4])

RECURSIVE Concat(_)
\* ''.join(parts): the parts of the first half, then those of the second
Concat(parts) ==
    IF parts = <<>> THEN <<>>
    ELSE IF Len(parts) = 1 THEN parts[1]
    ELSE Concat(SubSeq(parts, 1, Len(parts) \div 2))
         \o Concat(SubSeq(parts, Len(parts) \div 2 + 1, Len(parts)))

checkSigned32Ok(v) == -32768 <= v.hi /\ v.hi < 32768
checkUnsigned32Ok(v) == IsU32(v)

\* signedToUnsigned32 without its last line: any integer is converted
signedToUnsigned32OkAlways(v) == v = v

signedToUnsigned32Ok(v) == -32768 <= v.hi /\ v.hi < 32768
signedToUnsigned32(v) ==
    IF 0 <= v.hi /\ v.hi < 32768 THEN v ELSE U32(v.hi + 32768 + 32768, v.lo)

unsignedToSigned32Ok(v) == IsU32(v)
unsignedToSigned32(v) ==
    IF 0 <= v.hi /\ v.hi < 32768 THEN v ELSE U32(v.hi - 32768 - 32768, v.lo)


----------------------------------------------------------------------------
(* Strings: str.encode('utf8'), bytes.decode('utf8') and the % formats.    *)

\* the UTF-8 bytes of one code point
utf8Char(c) ==
    IF c < 128 THEN <<c>>
    ELSE IF c < 2048 THEN <<192 + c \div 64, 128 + (c % 64)>>
    ELSE IF c < 65536
         THEN <<224 + c \div 4096, 128 + ((c \div 64) % 64), 128 + (c % 64)>>
    ELSE <<240 + c \div 262144, 128 + ((c \div 4096) % 64),
           128 + ((c \div 64) % 64), 128 + (c % 64)>>

\* s.encode('utf8')
encode(s) == Concat([i \in 1..Len(s) |-> utf8Char(s[i])])

\* the code point of the bytes of one character
decodeChar(d) ==
    IF d[1] < 128 THEN d[1]
    ELSE IF d[1] < 224 THEN (d[1] - 192) * 64 + (d[2] - 128)
    ELSE IF d[1] < 240
    THEN (d[1] - 224) * 4096 + (d[2] - 128) * 64 + (d[3] - 128)
    ELSE (d[1] - 240) * 262144 + (d[2] - 128) * 4096 + (d[3] - 128) * 64
         + (d[4] - 128)

\* the number of bytes of d that come before the last character beginning
\* in the first half of d, or before the first one of the second half
decodeCut(d) ==
    CHOOSE j \in 1..Len(d) - 1 :
        /\ d[j + 1] \div 64 # 2
        /\ \A k \in j + 1..Len(d) - 1 :
              d[k + 1] \div 64 # 2 => k > Len(d) \div 2

RECURSIVE decode(_)
\* d.decode('utf8'), for well-formed d: the characters of the bytes up to
\* decodeCut, then those of the rest
decode(d) ==
    IF d = <<>> THEN <<>>
    ELSE IF \A j \in 2..Len(d) : d[j] \div 64 = 2 THEN <<decodeChar(d)>>
    ELSE decode(SubSeq(d, 1, decodeCut(d)))
         \o decode(SubSeq(d, decodeCut(d) + 1, Len(d)))

\* the code point of a hexadecimal digit, upper case
hexDigit(n) == IF n < 10 THEN 48 + n ELSE 55 + n

RECURSIVE hexDigits(_)
\* the hexadecimal digits of n > 0, none for 0
hexDigits(n) ==
    IF n = 0 THEN <<>> ELSE hexDigits(n \div 16) \o <<hexDigit(n % 16)>>

\* '%04X' % v, for v >= 0
formatHex(v) ==
    LET low == <<hexDigit(v.lo \div 4096), hexDigit((v.lo \div 256) % 16),
                 hexDigit((v.lo \div 16) % 16), hexDigit(v.lo % 16)>>
    IN  hexDigits(v.hi) \o low

RECURSIVE decDigits(_)
decDigits(n) ==
    IF n < 10 THEN <<48 + n>> ELSE decDigits(n \div 10) \o <<48 + (n % 10)>>

\* '%d' % v, for v within signed 32 bits
formatDec(v) ==
    LET n == v.hi * 65536 + v.lo
    IN  IF n >= 0 THEN decDigits(n)
        ELSE IF v = U32(-32768, 0) THEN <<45>> \o decDigits(214748364) \o <<56>>
        ELSE <<45>> \o decDigits(0 - n)

RECURSIVE joinHex(_)
\* ' '.join('%04X' % value for value in values)
joinHex(values) ==
    IF values = <<>> THEN <<>>
    ELSE IF Len(values) = 1 THEN formatHex(values[1])
    ELSE formatHex(values[1]) \o <<32>> \o joinHex(Tail(values))

----------------------------------------------------------------------------
(* The property model: entries, subtables, tables.                         *)

SingleEntry(f, l, v) ==
    [type |-> SINGLE, firstCodePoint |-> f, lastCodePoint |-> l, value |-> v]
MultipleEntry(f, l, vs) ==
    [type |-> MULTIPLE, firstCodePoint |-> f, lastCodePoint |-> l, value |-> vs]
BooleanEntry(f, l, v) ==
    [type |-> BOOLEAN_, firstCodePoint |-> f, lastCodePoint |-> l, value |-> v]
DecimalEntry(f, l, v) ==
    [type |-> DECIMAL, firstCodePoint |-> f, lastCodePoint |-> l, value |-> v]
HexadecimalEntry(f, l, v) ==
    [type |-> HEXADECIMAL, firstCodePoint |-> f, lastCodePoint |-> l,
     value |-> v]
HexMultipleEntry(f, l, vs) ==
    [type |-> HEXMULTIPLE, firstCodePoint |-> f, lastCodePoint |-> l,
     value |-> vs]
HexSequenceEntry(f, l, v) ==
    [type |-> HEXSEQUENCE, firstCodePoint |-> f, lastCodePoint |-> l,
     value |-> v]
CaseMappingEntry(f, l, m, c) ==
    [type |-> CASEMAPPING, firstCodePoint |-> f, lastCodePoint |-> l,
     value |-> [mapping |-> m, condition |-> c]]
NameAliasEntry(f, l, a, t) ==
    [type |-> NAMEALIAS, firstCodePoint |-> f, lastCodePoint |-> l,
     value |-> [alias |-> a, aliasType |-> t]]

contains(entry, cp) == entry.firstCodePoint <= cp /\ cp <= entry.lastCodePoint

\* entry.propertyValue(cp) of the nine entry classes
PuaaEntry_propertyValue(entry, cp) ==
    CASE entry.type = SINGLE -> entry.value
      [] entry.type = MULTIPLE -> entry.value[cp - entry.firstCodePoint + 1]
      [] entry.type = BOOLEAN_ -> IF entry.value THEN <<89>> ELSE <<78>>
      [] entry.type = DECIMAL -> formatDec(entry.value)
      [] entry.type = HEXADECIMAL -> formatHex(entry.value)
      [] entry.type = HEXMULTIPLE ->
            formatHex(entry.value[cp - entry.firstCodePoint + 1])
      [] entry.type = HEXSEQUENCE -> joinHex(entry.value)
      [] entry.type = CASEMAPPING ->
            LET v == joinHex(entry.value.mapping)
                c == entry.value.condition
            IN  IF c # None /\ c # <<>> THEN v \o <<59, 32>> \o c ELSE v
      [] entry.type = NAMEALIAS ->
            \* '%s;%s' formats None as the text None
            LET str(x) == IF x = None THEN <<78, 111, 110, 101>> ELSE x
            IN  str(entry.value.alias) \o <<59>> \o str(entry.value.aliasType)

PuaaSubtable(propertyName) == [propertyName |-> propertyName, entries |-> <<>>]

RECURSIVE accumulate(_, _, _)
\* the loop of PuaaSubtable.propertyValue over the entries left
accumulate(entries, cp, returnValue) ==
    IF entries = <<>> THEN returnValue
    ELSE LET entry == Head(entries)
             value == PuaaEntry_propertyValue(entry, cp)
             next == IF contains(entry, cp) /\ value # None
                     THEN IF returnValue = None THEN value
                          ELSE returnValue \o value
                     ELSE returnValue
         IN  accumulate(Tail(entries), cp, next)

PuaaSubtable_propertyValue(st, cp) == accumulate(st.entries, cp, None)

RECURSIVE PuaaTable_propertyValue(_, _, _)
\* the value of the first subtable of that name, None when there is none
PuaaTable_propertyValue(subtables, propertyName, cp) ==
    IF subtables = <<>> THEN None
    ELSE IF Head(subtables).propertyName = propertyName
         THEN PuaaSubtable_propertyValue(Head(subtables), cp)
    ELSE PuaaTable_propertyValue(Tail(subtables), propertyName, cp)

\* table.subtable(propertyName, create=True).entries: the index of the
\* subtable of that name, 0 when there is none
subtableIndex(subtables, propertyName) ==
    LET found == {i \in 1..Len(subtables) :
                    subtables[i].propertyName = propertyName}
    IN  IF found = {} THEN 0 ELSE CHOOSE i \in found : \A j \in found : i <= j

\* table.subtable(propertyName, True): the table with the subtable created
\* at its end when it has none of that name
PuaaTable_subtable(subtables, propertyName) ==
    IF subtableIndex(subtables, propertyName) # 0 THEN subtables
    ELSE Append(subtables, PuaaSubtable(propertyName))

\* table.subtable(propertyName, True).entries.append(entry)
appendEntry(subtables, propertyName, entry) ==
    LET t == PuaaTable_subtable(subtables, propertyName)
        i == subtableIndex(t, propertyName)
    IN  [t EXCEPT ![i].entries = Append(@, entry)]

----------------------------------------------------------------------------
(* Sorting.  BitSet is the repository's bitset module: a dense set of      *)
(* numbers, getAny and setAll taking a closed range.                       *)

BitSet == {}
BitSet_getAny(bits, i, j) == \E k \in i..j : k \in bits
BitSet_setAll(bits, i, j) == bits \cup (i..j)

RECURSIVE isSortableFrom(_, _)
\* the loop of PuaaSubtable.isSortable over the entries left
isSortableFrom(entries, codePoints) ==
    IF entries = <<>> THEN TRUE
    ELSE LET entry == Head(entries)
         IN  IF BitSet_getAny(codePoints, entry.firstCodePoint,
                              entry.lastCodePoint)
             THEN FALSE
             ELSE isSortableFrom(Tail(entries),
                     BitSet_setAll(codePoints, entry.firstCodePoint,
                                   entry.lastCodePoint))

PuaaSubtable_isSortable(st) == isSortableFrom(st.entries, BitSet)

\* the sort key (e.firstCodePoint, e.lastCodePoint), compared as tuples
entryKeyLess(a, b) ==
    \/ a.firstCodePoint < b.firstCodePoint
    \/ /\ a.firstCodePoint = b.firstCodePoint
       /\ a.lastCodePoint < b.lastCodePoint

RECURSIVE strLess(_, _)
\* a < b of two str: by code point, a proper prefix first
strLess(a, b) ==
    IF b = <<>> THEN FALSE
    ELSE IF a = <<>> THEN TRUE
    ELSE IF Head(a) # Head(b) THEN Head(a) < Head(b)
    ELSE strLess(Tail(a), Tail(b))

subtableKeyLess(a, b) == strLess(a.propertyName, b.propertyName)

\* x put into s behind its first k elements; a stable sort puts the last
\* element behind as many elements as are not greater than it
insertAt(s, x, k) == SubSeq(s, 1, k) \o <<x>> \o SubSeq(s, k + 1, Len(s))

RECURSIVE sortEntries(_)
\* entries.sort(key=lambda e: (e.firstCodePoint, e.lastCodePoint)): stable
sortEntries(s) ==
    IF s = <<>> THEN <<>>
    ELSE insertAt(sortEntries(SubSeq(s, 1, Len(s) - 1)), s[Len(s)],
             Cardinality({i \in 1..(Len(s) - 1) :
                 ~entryKeyLess(s[Len(s)], s[i])}))

RECURSIVE sortSubtables(_)
\* subtables.sort(key=lambda st: st.propertyName): stable
sortSubtables(s) ==
    IF s = <<>> THEN <<>>
    ELSE insertAt(sortSubtables(SubSeq(s, 1, Len(s) - 1)), s[Len(s)],
             Cardinality({i \in 1..(Len(s) - 1) :
                 ~subtableKeyLess(s[Len(s)], s[i])}))

\* PuaaSubtable.sort without the isSortable test
PuaaSubtable_sortAlways(st) == [st EXCEPT !.entries = sortEntries(st.entries)]

\* PuaaSubtable.sort that turns around the entries it cannot sort
PuaaSubtable_sortOrTurn(st) ==
    IF PuaaSubtable_isSortable(st) THEN PuaaSubtable_sortAlways(st)
    ELSE [st EXCEPT !.entries =
             [i \in 1..Len(st.entries) |-> st.entries[Len(st.entries) + 1 - i]]]

PuaaSubtable_sort(st) ==
    IF PuaaSubtable_isSortable(st)
    THEN [st EXCEPT !.entries = sortEntries(st.entries)]
    ELSE st

PuaaTable_removeEmpty(subtables) ==
    SelectSeq(subtables, LAMBDA st : st.entries # <<>>)

PuaaTable_sort(subtables) ==
    LET byName == sortSubtables(subtables)
    IN  [i \in 1..Len(byName) |-> PuaaSubtable_sort(byName[i])]

----------------------------------------------------------------------------
(* PuaaTable.compile.                                                      *)

NoneInt == U32(-1, -1)

\* minify3: the inline form of the bytes d, NoneInt where the code
\* returns None
minify(d) ==
    IF Len(d) > 4 THEN NoneInt
    ELSE IF \E i \in 1..Len(d) : d[i] >= 128 THEN NoneInt
    ELSE LET b(i) == IF Len(d) >= i THEN d[i] % 128 ELSE 0
         IN  U32(32768 + b(1) * 256 + b(2), b(3) * 256 + b(4))

\* the cursor p[0] and the string table when compile starts on strings
stringState(p) == [p |-> p, stringTable |-> <<>>, stringData |-> <<>>]

\* strAddr without the stringTable lookup
strAddrUninterned(s, forceFull, S) ==
    IF s = None THEN [S |-> S, addr |-> IntOf(0)]
    ELSE IF ~forceFull /\ minify(encode(s)) # NoneInt
         THEN [S |-> S, addr |-> minify(encode(s))]
    ELSE [S |-> [p |-> S.p + Len(encode(s)) + 1,
                 stringTable |-> Append(S.stringTable, [s |-> s, sp |-> S.p]),
                 stringData |-> Append(S.stringData, encode(s))],
          addr |-> IntOf(S.p)]

\* strAddr(s, forceFull): the reference returned and the state left
strAddr(s, forceFull, S) ==
    LET known == {i \in 1..Len(S.stringTable) : S.stringTable[i].s = s}
        d == encode(s)
        v == minify(d)
    IN  IF s = None THEN [S |-> S, addr |-> IntOf(0)]
        ELSE IF known # {}
             THEN [S |-> S,
                   addr |-> IntOf(S.stringTable[CHOOSE i \in known : TRUE].sp)]
        ELSE IF ~forceFull /\ v # NoneInt THEN [S |-> S, addr |-> v]
        ELSE [S |-> [p |-> S.p + Len(d) + 1,
                     stringTable |->
                         Append(S.stringTable, [s |-> s, sp |-> S.p]),
                     stringData |-> Append(S.stringData, d)],
              addr |-> IntOf(S.p)]

RECURSIVE strAddrs(_, _, _)
\* [strAddr(s, forceFull) for s in ss]
strAddrs(ss, forceFull, S) ==
    IF ss = <<>> THEN [S |-> S, addrs |-> <<>>]
    ELSE LET one == strAddr(Head(ss), forceFull, S)
             rest == strAddrs(Tail(ss), forceFull, one.S)
         IN  [S |-> rest.S, addrs |-> <<one.addr>> \o rest.addrs]

\* the entries of all subtables, in the order compile walks them
allEntries(subtables) ==
    Concat([i \in 1..Len(subtables) |-> subtables[i].entries])

RECURSIVE subtableHeaderOffsets(_, _)
\* subtableHeaderOffset, p[0] starting at p
subtableHeaderOffsets(subtables, p) ==
    IF subtables = <<>> THEN <<>>
    ELSE <<p>> \o subtableHeaderOffsets(Tail(subtables),
                      p + 2 + Len(Head(subtables).entries) * 10)

\* p[0] after the subtable headers
entryDataStart(subtables) ==
    4 + Len(subtables) * 8 + 2 * Len(subtables)
      + Len(allEntries(subtables)) * 10

\* valueCount of an entry, -1 where the code has None
valueCountOf(entry) ==
    CASE entry.type \in {MULTIPLE, HEXMULTIPLE, HEXSEQUENCE} -> Len(entry.value)
      [] entry.type = CASEMAPPING -> Len(entry.value.mapping) + 1
      [] entry.type = NAMEALIAS -> 2
      [] OTHER -> -1

\* what subAppend records for an entry when p[0] is p: entryType, entryData
\* (NoneInt for None) and valueCount
subAppend(entry, p) ==
    [et |-> entry.type,
     ed |-> CASE entry.type = SINGLE -> NoneInt
              [] entry.type = BOOLEAN_ ->
                    IF entry.value THEN UINT_MAX ELSE IntOf(0)
              [] entry.type = DECIMAL -> signedToUnsigned32(entry.value)
              [] entry.type = HEXADECIMAL -> entry.value
              [] OTHER -> IntOf(p),
     vc |-> valueCountOf(entry)]

RECURSIVE entryHeaders(_, _)
\* the "Calculate entry header values" loop over the entries left
entryHeaders(entries, p) ==
    IF entries = <<>> THEN [p |-> p, hs |-> <<>>]
    ELSE LET h == subAppend(Head(entries), p)
             rest == entryHeaders(Tail(entries),
                         IF h.vc # -1 THEN p + 2 + h.vc * 4 ELSE p)
         IN  [p |-> rest.p, hs |-> <<h>> \o rest.hs]

\* the strings of an entry that compile hands to strAddr, in call order
entryStrings(entry) ==
    CASE entry.type = SINGLE -> <<entry.value>>
      [] entry.type = MULTIPLE -> entry.value
      [] entry.type = CASEMAPPING -> <<entry.value.condition>>
      [] entry.type = NAMEALIAS -> <<entry.value.alias, entry.value.aliasType>>
      [] OTHER -> <<>>

RECURSIVE stringOffsets(_, _, _)
\* the "Calculate string data offsets" loop: entryData and valueData
\* (None for None) of the entries left
stringOffsets(entries, hs, S) ==
    IF entries = <<>> THEN [S |-> S, rs |-> <<>>]
    ELSE LET entry == Head(entries)
             h == Head(hs)
             ss == entryStrings(entry)
             a == strAddrs(ss, FALSE, S)
             r == [et |-> h.et,
                   ed |-> IF entry.type = SINGLE THEN a.addrs[1] ELSE h.ed,
                   vc |-> h.vc,
                   vd |-> CASE entry.type \in {MULTIPLE, NAMEALIAS} -> a.addrs
                            [] entry.type = CASEMAPPING ->
                                  entry.value.mapping \o a.addrs
                            [] entry.type \in {HEXMULTIPLE, HEXSEQUENCE} ->
                                  entry.value
                            [] OTHER -> None]
             rest == stringOffsets(Tail(entries), Tail(hs), a.S)
         IN  [S |-> rest.S, rs |-> <<r>> \o rest.rs]

\* entryStruct.pack(entryType, first >> 16, first & 0xFFFF, last & 0xFFFF,
\* entryData)
entryStruct_pack(entry, r) ==
    <<r.et, entry.firstCodePoint \div 65536>>
    \o shortStruct_pack(entry.firstCodePoint % 65536)
    \o shortStruct_pack(entry.lastCodePoint % 65536)
    \o intStruct_pack(r.ed)

\* the exception compile raises on these subtables, "" when it returns
compileError(subtables) ==
    LET es == allEntries(subtables)
        ints(e) == CASE e.type \in {HEXMULTIPLE, HEXSEQUENCE} -> e.value
                     [] e.type = CASEMAPPING -> e.value.mapping
                     [] OTHER -> <<>>
        tooLong(str) == str # None /\ Len(encode(str)) > 255
        overflow(e) ==
            \/ e.type = DECIMAL /\ ~signedToUnsigned32Ok(e.value)
            \/ e.type = HEXADECIMAL /\ ~checkUnsigned32Ok(e.value)
        unpackable(e) ==
            \/ \E k \in 1..Len(ints(e)) : ~IsU32(ints(e)[k])
            \/ e.firstCodePoint \div 65536 > 255
            \/ valueCountOf(e) > 65535
            \/ \E k \in 1..Len(entryStrings(e)) : tooLong(entryStrings(e)[k])
        unpackableSubtable(st) ==
            tooLong(st.propertyName) \/ Len(st.entries) > 65535
    IN  IF \E i \in 1..Len(es) : overflow(es[i]) THEN "OverflowError"
        ELSE IF \/ \E i \in 1..Len(es) : unpackable(es[i])
                \/ \E i \in 1..Len(subtables) : unpackableSubtable(subtables[i])
                \/ Len(subtables) > 65535
             THEN "struct.error"
        ELSE ""

\* "Write table header" to "Write string data": the bytes joined, given
\* propertyNameOffset, subtableHeaderOffset, the entries' resolved
\* entryData and valueData (rs) and stringData
writeBytes(subtables, propertyNameOffset, subtableHeaderOffset, rs, stringData) ==
    LET n == Len(subtables)
        start(i) == Len(allEntries(SubSeq(subtables, 1, i - 1)))
    IN  shortStruct_pack(1) \o shortStruct_pack(n)
        \o Concat([i \in 1..n |->
               intStruct_pack(propertyNameOffset[i])
               \o intStruct_pack(IntOf(subtableHeaderOffset[i]))])
        \o Concat([i \in 1..n |->
               shortStruct_pack(Len(subtables[i].entries))
               \o Concat([j \in 1..Len(subtables[i].entries) |->
                      entryStruct_pack(subtables[i].entries[j],
                                       rs[start(i) + j])])])
        \o Concat([k \in 1..Len(rs) |->
               IF rs[k].vd = None THEN <<>>
               ELSE shortStruct_pack(rs[k].vc)
                    \o Concat([m \in 1..Len(rs[k].vd) |->
                           intStruct_pack(rs[k].vd[m])])])
        \o Concat([k \in 1..Len(stringData) |->
               byteStruct_pack(Len(stringData[k])) \o stringData[k]])

\* "Calculate string data offsets", then the writing, given the property
\* name offsets and the string table they left (names)
compileStrings(subtables, hs, names) ==
    LET R == stringOffsets(allEntries(subtables), hs, names.S)
    IN  writeBytes(subtables, names.addrs,
                   subtableHeaderOffsets(subtables, 4 + Len(subtables) * 8),
                   R.rs, R.S.stringData)

\* "Calculate property name offsets" and what follows, given the entry
\* header values and p[0] they left (H)
compileNames(subtables, H) ==
    compileStrings(subtables, H.hs,
        strAddrs([i \in 1..Len(subtables) |-> subtables[i].propertyName],
                 TRUE, stringState(H.p)))

\* the bytes compile joins, for subtables already sorted
compileBytes(subtables) ==
    compileNames(subtables,
        entryHeaders(allEntries(subtables), entryDataStart(subtables)))

\* table.compile(): the subtables it leaves in the table, the exception it
\* raises ("" for none) and the bytes it returns
compileSorted(sorted, e) ==
    [data |-> IF e = "" THEN compileBytes(sorted) ELSE <<>>,
     err |-> e, subtables |-> sorted]

PuaaTable_compileFrom(sorted) == compileSorted(sorted, compileError(sorted))

PuaaTable_compile(subtables) ==
    PuaaTable_compileFrom(PuaaTable_sort(PuaaTable_removeEmpty(subtables)))

----------------------------------------------------------------------------
(* PuaaTable.decompile.                                                    *)

\* getStr(offset): the string a reference stands for
getStr(d, offset) ==
    IF offset.hi >= 32768
    THEN LET b == <<(offset.hi \div 256) % 128, offset.hi % 128,
                    (offset.lo \div 256) % 128, offset.lo % 128>>
         IN  SelectSeq(b, LAMBDA x : x # 0)
    ELSE IF offset # IntOf(0)
         THEN LET o == NatOf(offset)
              IN  decode(Slice(d, o + 1, o + 1 + d[o + 1]))
    ELSE None

\* getInts(offset)
getInts(d, offset) ==
    LET n == shortStruct_unpack(Slice(d, offset, offset + 2))
    IN  [i \in 1..n |->
            intStruct_unpack(Slice(d, offset + 2 + (i - 1) * 4,
                                   offset + 6 + (i - 1) * 4))]

\* the entry decompile appends for the entry record at 0-based position at
decompileEntry(d, at) ==
    LET et == d[at + 1]
        p == d[at + 2]
        f == shortStruct_unpack(Slice(d, at + 2, at + 4))
        l == shortStruct_unpack(Slice(d, at + 4, at + 6))
        ed == intStruct_unpack(Slice(d, at + 6, at + 10))
        firstCodePoint == p * 65536 + f
        lastCodePoint == p * 65536 + l
        values == getInts(d, NatOf(ed))
        strs == [i \in 1..Len(values) |-> getStr(d, values[i])]
    IN  CASE et = SINGLE ->
               <<SingleEntry(firstCodePoint, lastCodePoint, getStr(d, ed))>>
          [] et = MULTIPLE ->
               <<MultipleEntry(firstCodePoint, lastCodePoint, strs)>>
          [] et = BOOLEAN_ ->
               <<BooleanEntry(firstCodePoint, lastCodePoint, ed # IntOf(0))>>
          [] et = DECIMAL ->
               <<DecimalEntry(firstCodePoint, lastCodePoint,
                              unsignedToSigned32(ed))>>
          [] et = HEXADECIMAL ->
               <<HexadecimalEntry(firstCodePoint, lastCodePoint, ed)>>
          [] et = HEXMULTIPLE ->
               <<HexMultipleEntry(firstCodePoint, lastCodePoint, values)>>
          [] et = HEXSEQUENCE ->
               <<HexSequenceEntry(firstCodePoint, lastCodePoint, values)>>
          [] et = CASEMAPPING ->
               <<CaseMappingEntry(firstCodePoint, lastCodePoint,
                                  SubSeq(values, 1, Len(values) - 1),
                                  strs[Len(values)])>>
          [] et = NAMEALIAS ->
               <<NameAliasEntry(firstCodePoint, lastCodePoint,
                                strs[1], strs[2])>>
          [] OTHER -> <<>>

\* the subtable decompile appends for directory record i (from 0)
decompileSubtable(d, i) ==
    LET pno == intStruct_unpack(Slice(d, 4 + i * 8, 8 + i * 8))
        sho == NatOf(intStruct_unpack(Slice(d, 8 + i * 8, 12 + i * 8)))
        entryCount == shortStruct_unpack(Slice(d, sho, sho + 2))
    IN  [propertyName |-> getStr(d, pno),
         entries |-> Concat([j \in 1..entryCount |->
                        decompileEntry(d, sho + 2 + (j - 1) * 10)])]

\* decompile without the test of the version
PuaaTable_decompileAnyVersion(subtables, d) ==
    [err |-> "",
     subtables |-> subtables \o
         [i \in 1..shortStruct_unpack(Slice(d, 2, 4)) |->
             decompileSubtable(d, i - 1)]]

\* table.decompile(data) on a table holding subtables: the subtables it
\* leaves and the exception it raises ("" for none)
PuaaTable_decompile(subtables, d) ==
    LET version == shortStruct_unpack(Slice(d, 0, 2))
        propertyCount == shortStruct_unpack(Slice(d, 2, 4))
    IN  IF version # 1 THEN [err |-> "ValueError", subtables |-> subtables]
        ELSE [err |-> "",
              subtables |-> subtables \o
                  [i \in 1..propertyCount |-> decompileSubtable(d, i - 1)]]

----------------------------------------------------------------------------
(* The font container: chksum and writePUAA.                               *)

\* byte b of a trailing 1..3 bytes at position i: b << (((i & 3) ^ 3) << 3)
tailByte(b, i) ==
    CASE i % 4 = 0 -> U32(b * 256, 0)
      [] i % 4 = 1 -> U32(b, 0)
      [] i % 4 = 2 -> U32(0, b * 256)
      [] OTHER -> U32(0, b)

RECURSIVE chksumWords(_, _, _)
\* the first loop of chksum over the words i .. j-1: cs += word;
\* cs &= UINT_MAX.  Addition modulo 2^32 is associative, so the words are
\* added pairwise, which keeps the evaluation shallow
chksumWords(d, i, j) ==
    IF j <= i THEN IntOf(0)
    ELSE IF j = i + 1 THEN intStruct_unpack(Slice(d, i * 4, i * 4 + 4))
    ELSE AddU32(chksumWords(d, i, (i + j) \div 2),
                chksumWords(d, (i + j) \div 2, j))

RECURSIVE chksumTail(_, _, _)
\* the second loop of chksum, from position i
chksumTail(d, i, cs) ==
    IF i >= Len(d) THEN cs
    ELSE chksumTail(d, i + 1, AddU32(cs, tailByte(d[i + 1], i)))

chksum(d) ==
    chksumTail(d, Len(d) - (Len(d) % 4), chksumWords(d, 0, Len(d) \div 4))

\* the sfnt header of a file: scaler and numTables
ttfScaler(f) == intStruct_unpack(Slice(f, 0, 4))
ttfNumTables(f) == shortStruct_unpack(Slice(f, 4, 6))

\* tables = [ttfTableStruct.unpack(fp.read(16)) for i in range(0, numTables)]
ttfDirectory(f) ==
    [i \in 1..ttfNumTables(f) |->
        LET at == 12 + (i - 1) * 16
        IN  [offset |-> intStruct_unpack(Slice(f, at + 8, at + 12)),
             tag |-> intStruct_unpack(Slice(f, at, at + 4)),
             checksum |-> intStruct_unpack(Slice(f, at + 4, at + 8)),
             length |-> intStruct_unpack(Slice(f, at + 12, at + 16))]]

\* fp.seek(offset); fp.read(length)
ttfPayload(f, rec) ==
    Slice(f, NatOf(rec.offset), NatOf(rec.offset) + NatOf(rec.length))

\* data[0:8] + NULLS[0:4] + data[12:]
clearChecksum(d) == Slice(d, 0, 8) \o Slice(NULLS, 0, 4) \o Slice(d, 12, Len(d))

\* the record td writePUAA keeps for a table of the input font
inputTd(f, rec) ==
    LET d == ttfPayload(f, rec)
    IN  [data |-> IF rec.tag = HEAD THEN clearChecksum(d) ELSE d,
         offset |-> rec.offset, tag |-> rec.tag, checksum |-> rec.checksum]

\* the record td writePUAA makes for the compiled PUAA table
puaaTd(d) ==
    [data |-> d, offset |-> UINT_MAX, tag |-> PUAA, checksum |-> chksum(d)]

\* "Gather tables" without the "if tag == PUAA: continue"
gatherTablesKeepingPUAA(f) ==
    [i \in 1..ttfNumTables(f) |-> inputTd(f, ttfDirectory(f)[i])]

\* newTables after "Gather tables": the input's tables but PUAA
gatherTables(f) ==
    LET dir == ttfDirectory(f)
        kept == SelectSeq(dir, LAMBDA rec : rec.tag # PUAA)
    IN  [i \in 1..Len(kept) |-> inputTd(f, kept[i])]

RECURSIVE searchLoop(_, _, _)
\* while searchRange > numTables: searchRange >>= 1; entrySelector -= 1
searchLoop(searchRange, entrySelector, n) ==
    IF searchRange > n
    THEN searchLoop(searchRange \div 2, entrySelector - 1, n)
    ELSE [searchRange |-> searchRange, entrySelector |-> entrySelector]

\* "Calculate header values" without the "searchRange <<= 4"
headerValuesUnshifted(n) ==
    [numTables |-> n,
     searchRange |-> searchLoop(1073741824, 30, n).searchRange,
     entrySelector |-> searchLoop(1073741824, 30, n).entrySelector,
     rangeShift |-> n * 16 - searchLoop(1073741824, 30, n).searchRange]

\* "Calculate header values" of writePUAA
headerValues(n) ==
    LET r == searchLoop(1073741824, 30, n)
    IN  [numTables |-> n,
         searchRange |-> r.searchRange * 16,
         entrySelector |-> r.entrySelector,
         rangeShift |-> n * 16 - r.searchRange * 16]

\* "Calculate header values" of TtfFile.write
TtfFile_headerValues(n) ==
    LET r == searchLoop(1073741824, 30, n)
    IN  [numTables |-> n,
         searchRange |-> r.searchRange * 16,
         entrySelector |-> r.entrySelector,
         rangeShift |-> n * 16 - r.searchRange * 16]

IsU16(n) == 0 <= n /\ n <= 65535

\* ttfHeaderStruct.pack(scaler, numTables, searchRange, entrySelector,
\* rangeShift): the bytes, and whether struct.error is raised instead
ttfHeaderStruct_packable(scaler, h) ==
    /\ IsU32(scaler)
    /\ IsU16(h.numTables) /\ IsU16(h.searchRange)
    /\ IsU16(h.entrySelector) /\ IsU16(h.rangeShift)
ttfHeaderStruct_pack(scaler, h) ==
    intStruct_pack(scaler) \o shortStruct_pack(h.numTables)
    \o shortStruct_pack(h.searchRange) \o shortStruct_pack(h.entrySelector)
    \o shortStruct_pack(h.rangeShift)

ttfTableStruct_pack(tag, checksum, offset, length) ==
    intStruct_pack(tag) \o intStruct_pack(checksum) \o intStruct_pack(offset)
    \o intStruct_pack(length)

offsetLess(a, b) == LessInt(a.offset, b.offset)
tagLess(a, b) == LessInt(a.tag, b.tag)

RECURSIVE sortByOffset(_)
\* newTables.sort(key=lambda td: td[2]): stable
sortByOffset(s) ==
    IF s = <<>> THEN <<>>
    ELSE insertAt(sortByOffset(SubSeq(s, 1, Len(s) - 1)), s[Len(s)],
             Cardinality({i \in 1..(Len(s) - 1) :
                 ~offsetLess(s[Len(s)], s[i])}))

RECURSIVE sortByTag(_)
\* newTables.sort(key=lambda td: td[0]): stable
sortByTag(s) ==
    IF s = <<>> THEN <<>>
    ELSE insertAt(sortByTag(SubSeq(s, 1, Len(s) - 1)), s[Len(s)],
             Cardinality({i \in 1..(Len(s) - 1) :
                 ~tagLess(s[Len(s)], s[i])}))

\* currentLoc after a payload of n bytes and "while currentLoc & 3"
padded(n) == n + ((4 - (n % 4)) % 4)

RECURSIVE assignOffsets(_, _)
\* the "Calculate offsets" loop over the tables left, from currentLoc
assignOffsets(tds, currentLoc) ==
    IF tds = <<>> THEN <<>>
    ELSE <<[Head(tds) EXCEPT !.offset = IntOf(currentLoc)]>>
         \o assignOffsets(Tail(tds),
                          padded(currentLoc + Len(Head(tds).data)))

\* checksumLoc: 8 past the offset of the last head table, 0 without one
checksumLocOf(tds) ==
    LET heads == {i \in 1..Len(tds) : tds[i].tag = HEAD}
    IN  IF heads = {} THEN 0
        ELSE NatOf(tds[CHOOSE i \in heads : \A j \in heads : j <= i].offset) + 8

\* the padding taken as NULLS[0:(len(data) & 3)]
paddedDataShort(d) == d \o Slice(NULLS, 0, Len(d) % 4)

\* data + NULLS[(len(data) & 3):4] when len(data) & 3
paddedData(d) ==
    IF Len(d) % 4 # 0 THEN d \o Slice(NULLS, Len(d) % 4, 4) ELSE d

\* the whole-file checksum put in without the subtraction from CHKSUM
updateChecksumUnadjusted(ttf, checksumLoc) ==
    IF checksumLoc # 0
    THEN Slice(ttf, 0, checksumLoc) \o intStruct_pack(chksum(ttf))
         \o Slice(ttf, checksumLoc + 4, Len(ttf))
    ELSE ttf

\* the whole-file checksum put at checksumLoc, when there is a head table
updateChecksum(ttf, checksumLoc) ==
    IF checksumLoc # 0
    THEN Slice(ttf, 0, checksumLoc)
         \o intStruct_pack(SubU32(CHKSUM, chksum(ttf)))
         \o Slice(ttf, checksumLoc + 4, Len(ttf))
    ELSE ttf

\* "Compile": the header, the directory in tag order, the payloads in
\* offset order
joinTables(scaler, h, byTag, byOffset) ==
    ttfHeaderStruct_pack(scaler, h)
    \o Concat([i \in 1..Len(byTag) |->
           ttfTableStruct_pack(byTag[i].tag, byTag[i].checksum,
               byTag[i].offset, IntOf(Len(byTag[i].data)))])
    \o Concat([i \in 1..Len(byOffset) |-> paddedData(byOffset[i].data)])

writeSorted(scaler, h, placed, byTag) ==
    updateChecksum(joinTables(scaler, h, byTag, sortByOffset(byTag)),
                   checksumLocOf(placed))

writePlaced(scaler, h, placed) ==
    [data |-> IF ttfHeaderStruct_packable(scaler, h)
              THEN writeSorted(scaler, h, placed, sortByTag(placed))
              ELSE <<>>,
     err |-> IF ttfHeaderStruct_packable(scaler, h) THEN "" ELSE "struct.error"]

\* "Calculate header values" to the end of writePUAA, for the gathered
\* tables: the exception raised ("" for none) and the bytes written
writeTables(scaler, newTables) ==
    writePlaced(scaler, headerValues(Len(newTables)),
        assignOffsets(sortByOffset(newTables), 12 + Len(newTables) * 16))

gatherAll(given, f, puaa, c) ==
    IF puaa.given /\ c.err # "" THEN [data |-> <<>>, err |-> c.err]
    ELSE writeTables(IF given THEN ttfScaler(f) ELSE PUAA,
             (IF given THEN gatherTables(f) ELSE <<>>)
             \o (IF puaa.given THEN <<puaaTd(c.data)>> ELSE <<>>))

\* writePUAA(inpath, puaa, outpath): the exception raised ("" for none) and
\* the bytes written; given says whether inpath is not None, puaa.given
\* whether puaa is not None
writePUAA(given, f, puaa) ==
    gatherAll(given, f, puaa, PuaaTable_compile(puaa.subtables))

----------------------------------------------------------------------------
(* The codec pipeline: a table is filled the way the text codecs fill it   *)
(* (table.subtable(name, True), then entries.append), compiled, decompiled *)
(* into a fresh table and compiled again, as testPUAA does.                *)

\* "A", "Name"
PropertyNames == {<<65>>, <<78, 97, 109, 101>>}

\* "A", "Name", "ABCDE", "A\x00B", "é", "", "tr"
sA == <<65>>
sName == <<78, 97, 109, 101>>
sABCDE == <<65, 66, 67, 68, 69>>
sNul == <<65, 0, 66>>
sEacute == <<233>>
sTr == <<116, 114>>

\* the entries a table is filled from: every entry kind, strings of every
\* storage form, ranges that overlap and ranges that do not
EntryUniverse ==
    << SingleEntry(2, 3, sA),
       SingleEntry(1, 2, sABCDE),
       SingleEntry(1, 1, sNul),
       SingleEntry(4, 4, sName),
       MultipleEntry(4, 5, <<sEacute, <<>> >>),
       BooleanEntry(1, 1, TRUE),
       DecimalEntry(65537, 65538, U32(-1, 65535)),
       HexadecimalEntry(5, 5, U32(1, 62976)),
       HexMultipleEntry(6, 7, <<U32(0, 65), UINT_MAX>>),
       HexSequenceEntry(0, 0, <<U32(0, 105), U32(0, 775)>>),
       CaseMappingEntry(304, 304, <<U32(0, 105), U32(0, 775)>>, sTr),
       CaseMappingEntry(304, 304, <<U32(0, 304)>>, None),
       NameAliasEntry(0, 0, sABCDE, sA) >>

\* the code points looked up: those the entries cover, and one they do not
CodePoints == {0, 1, 2, 3, 4, 5, 6, 7, 8, 304, 65537, 65538}

CodecInit ==
    /\ table = <<>>
    /\ tableBefore = <<>>
    /\ data = <<>>
    /\ fresh = <<>>
    /\ comp = <<>>
    /\ err = ""
    /\ pc = "build"

\* a text codec calls table.subtable(propertyName, True)
CreateSubtable(propertyName) ==
    /\ pc = "build"
    /\ subtableIndex(table, propertyName) = 0
    /\ table' = PuaaTable_subtable(table, propertyName)
    /\ UNCHANGED <<tableBefore, data, fresh, comp, err, pc, fontVars, headerVars, textVars, lookupVars, mergeVars, hackVars, copyVars, againVars, convVars, mapVars>>

\* a text codec appends an entry to the subtable of a property
AppendEntry(propertyName, entry) ==
    /\ pc = "build"
    /\ Len(allEntries(table)) < MaxEntries
    /\ table' = appendEntry(table, propertyName, entry)
    /\ UNCHANGED <<tableBefore, data, fresh, comp, err, pc, fontVars, headerVars, textVars, lookupVars, mergeVars, hackVars, copyVars, againVars, convVars, mapVars>>

\* data = table.compile()
Compile ==
    /\ pc = "build"
    /\ \E r \in {PuaaTable_compile(table)} :
           /\ tableBefore' = table
           /\ table' = r.subtables
           /\ data' = r.data
           /\ err' = r.err
           /\ pc' = IF r.err = "" THEN "compiled" ELSE "failed"
    /\ UNCHANGED <<fresh, comp, fontVars, headerVars, textVars, lookupVars, mergeVars, hackVars, copyVars, againVars, convVars, mapVars>>

\* fresh = PuaaTable(); fresh.decompile(data)
Decompile ==
    /\ pc = "compiled"
    /\ \E r \in {PuaaTable_decompile(<<>>, data)} :
           /\ fresh' = r.subtables
           /\ err' = r.err
           /\ pc' = IF r.err = "" THEN "decompiled" ELSE "failed"
    /\ UNCHANGED <<table, tableBefore, data, comp, fontVars, headerVars, textVars, lookupVars, mergeVars, hackVars, copyVars, againVars, convVars, mapVars>>

\* comp = fresh.compile()
Recompile ==
    /\ pc = "decompiled"
    /\ \E r \in {PuaaTable_compile(fresh)} :
           /\ fresh' = r.subtables
           /\ comp' = r.data
           /\ err' = r.err
           /\ pc' = IF r.err = "" THEN "recompiled" ELSE "failed"
    /\ UNCHANGED <<table, tableBefore, data, fontVars, headerVars, textVars, lookupVars, mergeVars, hackVars, copyVars, againVars, convVars, mapVars>>

CodecNext ==
    \/ \E propertyName \in PropertyNames : CreateSubtable(propertyName)
    \/ \E propertyName \in PropertyNames, i \in 1..Len(EntryUniverse) :
          AppendEntry(propertyName, EntryUniverse[i])
    \/ Compile
    \/ Decompile
    \/ Recompile

----------------------------------------------------------------------------
(* The input fonts.  A font file is laid out as the sfnt format has it and *)
(* as writePUAA reads it: the header, the directory in tag order, then the *)
(* payloads, each at a multiple of 4.                                      *)

\* 'OS/2', 'cmap'
OS_2 == U32(20307, 12082)
CMAP == U32(25453, 24944)

\* 0x00010000, 'OTTO'
Scalers == {U32(1, 0), U32(20308, 21583)}

\* a head payload whose checksum slot holds DEADBEEF
headData == <<1, 2, 3, 4, 5, 6, 7, 8, 222, 173, 190, 239>>

\* the payloads an input font is made of, by tag
FontPayloads ==
    << [data |-> headData, tag |-> HEAD],
       [data |-> headData \o <<9>>, tag |-> HEAD],
       [data |-> <<>>, tag |-> CMAP],
       [data |-> <<97, 98, 99, 100, 101>>, tag |-> CMAP],
       [data |-> <<255, 255, 255, 255, 255, 254>>, tag |-> OS_2],
       [data |-> <<0, 1, 0, 0>>, tag |-> PUAA] >>

\* the checksum a font's directory carries for a payload: the right one,
\* or one that is not
rightChecksum(t) ==
    chksum(IF t.tag = HEAD THEN clearChecksum(t.data) ELSE t.data)
staleChecksum(t) == AddU32(rightChecksum(t), U32(4660, 1))

RECURSIVE layout(_, _)
\* the tables with their offsets, payloads in the order given
layout(tabs, at) ==
    IF tabs = <<>> THEN <<>>
    ELSE <<[data |-> Head(tabs).data, offset |-> IntOf(at),
            tag |-> Head(tabs).tag, checksum |-> Head(tabs).checksum]>>
         \o layout(Tail(tabs), padded(at + Len(Head(tabs).data)))

\* the bytes of a font of these tables
MakeFont(scaler, tabs) ==
    LET n == Len(tabs)
        placed == layout(tabs, 12 + n * 16)
        byTag == sortByTag(placed)
        h == IF n = 0
             THEN [numTables |-> 0, searchRange |-> 0, entrySelector |-> 0,
                   rangeShift |-> 0]
             ELSE headerValues(n)
    IN  ttfHeaderStruct_pack(scaler, h)
        \o Concat([i \in 1..n |->
               ttfTableStruct_pack(byTag[i].tag, byTag[i].checksum,
                   byTag[i].offset, IntOf(Len(byTag[i].data)))])
        \o Concat([i \in 1..n |->
               placed[i].data
               \o [k \in 1..(padded(Len(placed[i].data))
                               - Len(placed[i].data)) |-> 0]])

NoTable == [subtables |-> <<>>, given |-> FALSE]

\* the puaa arguments: None, an empty table, a table of one entry
PuaaArgs ==
    { NoTable,
      [subtables |-> <<>>, given |-> TRUE],
      [subtables |-> appendEntry(<<>>, sName, SingleEntry(1, 1, sA)),
       given |-> TRUE] }

FontInit ==
    /\ inTables = <<>>
    /\ \E scaler \in Scalers : inFile = MakeFont(scaler, <<>>)
    /\ puaaArg = NoTable
    /\ inGiven = FALSE
    /\ outFile = <<>>
    /\ fpc = "input"

FontIdle ==
    /\ inTables = <<>>
    /\ inFile = <<>>
    /\ puaaArg = NoTable
    /\ inGiven = FALSE
    /\ outFile = <<>>
    /\ fpc = "idle"

\* the input font gets one more table
FontAddTable(t) ==
    /\ fpc = "input"
    /\ Len(inTables) < MaxFontTables
    /\ \A i \in 1..Len(inTables) : inTables[i].tag # t.tag
    /\ inTables' = Append(inTables, t)
    /\ inFile' = MakeFont(ttfScaler(inFile), inTables')
    /\ UNCHANGED <<puaaArg, inGiven, outFile, fpc, codecVars, headerVars, textVars, lookupVars, mergeVars, hackVars, copyVars, againVars, convVars, mapVars>>

\* writePUAA(inpath, puaa, outpath); with inpath None no font was prepared
WritePUAA(given, puaa) ==
    /\ fpc = "input"
    /\ given \/ inTables = <<>>
    /\ \E r \in {writePUAA(given, inFile, puaa)} :
           /\ outFile' = r.data
           /\ fpc' = IF r.err = "" THEN "written" ELSE "failed"
    /\ inGiven' = given
    /\ puaaArg' = puaa
    /\ UNCHANGED <<inFile, inTables, codecVars, headerVars, textVars, lookupVars, mergeVars, hackVars, copyVars, againVars, convVars, mapVars>>

FontNext ==
    \/ \E i \in 1..Len(FontPayloads) :
          \/ FontAddTable([data |-> FontPayloads[i].data,
                           tag |-> FontPayloads[i].tag,
                           checksum |-> rightChecksum(FontPayloads[i])])
          \/ FontAddTable([data |-> FontPayloads[i].data,
                           tag |-> FontPayloads[i].tag,
                           checksum |-> staleChecksum(FontPayloads[i])])
    \/ \E given \in BOOLEAN, puaa \in PuaaArgs : WritePUAA(given, puaa)

----------------------------------------------------------------------------
(* The header computation, for any number of tables.                       *)

HeaderInit ==
    /\ numTables \in 0..MaxNumTables
    /\ hdr = [data |-> <<>>, err |-> ""]
    /\ hpc = "idle"

HeaderIdle ==
    /\ numTables = 0
    /\ hdr = [data |-> <<>>, err |-> ""]
    /\ hpc = "off"

packHeader(h) ==
    IF ttfHeaderStruct_packable(U32(1, 0), h)
    THEN [data |-> ttfHeaderStruct_pack(U32(1, 0), h), err |-> ""]
    ELSE [data |-> <<>>, err |-> "struct.error"]

\* writePUAA computes and packs the header for numTables tables
WritePUAAHeader ==
    /\ hpc = "idle"
    /\ hdr' = packHeader(headerValues(numTables))
    /\ hpc' = "writePUAA"
    /\ UNCHANGED <<numTables, codecVars, fontVars, textVars, lookupVars, mergeVars, hackVars, copyVars, againVars, convVars, mapVars>>

\* TtfFile.write computes and packs the header for numTables tables
TtfFileWriteHeader ==
    /\ hpc = "idle"
    /\ hdr' = packHeader(TtfFile_headerValues(numTables))
    /\ hpc' = "TtfFile.write"
    /\ UNCHANGED <<numTables, codecVars, fontVars, textVars, lookupVars, mergeVars, hackVars, copyVars, againVars, convVars, mapVars>>

HeaderNext == WritePUAAHeader \/ TtfFileWriteHeader

----------------------------------------------------------------------------
(* The text codecs: lines, fields and ranges.  A line of a file is a str,  *)
(* a sequence of code points.                                              *)

\* the characters str.strip() removes and \s matches, of Latin-1
Spaces == {9, 10, 11, 12, 13, 28, 29, 30, 31, 32, 133, 160}
isSpace(c) == c \in Spaces

\* the first position from i on that holds no space, Len(s) + 1 when none
firstNonSpace(s, i) ==
    IF \A j \in i..Len(s) : isSpace(s[j]) THEN Len(s) + 1
    ELSE CHOOSE j \in i..Len(s) :
            ~isSpace(s[j]) /\ \A k \in i..(j - 1) : isSpace(s[k])

\* the last position up to j that holds no space, 0 when none
lastNonSpace(s, j) ==
    IF \A i \in 1..j : isSpace(s[i]) THEN 0
    ELSE CHOOSE i \in 1..j : ~isSpace(s[i]) /\ \A k \in (i + 1)..j : isSpace(s[k])

\* s.strip()
strip(s) == SubSeq(s, firstNonSpace(s, 1), lastNonSpace(s, Len(s)))

\* the k-th smallest member of a set of positions; 0 for k = 0, and top
\* for k beyond the set
nthOf(P, k, top) ==
    IF k = 0 THEN 0
    ELSE IF k > Cardinality(P) THEN top
    ELSE CHOOSE p \in P : Cardinality({q \in P : q <= p}) = k

\* s.split(sep) for a one-character separator: the fields between the
\* separators
split(s, sep) ==
    [k \in 1..(Cardinality({i \in 1..Len(s) : s[i] = sep}) + 1) |->
        SubSeq(s, nthOf({i \in 1..Len(s) : s[i] = sep}, k - 1, 0) + 1,
                  nthOf({i \in 1..Len(s) : s[i] = sep}, k, Len(s) + 1) - 1)]

\* what splitLine returns for a line that holds nothing but a comment: None,
\* kept as the empty list, which split never returns
NoFields == <<>>

\* splitLine: the fields of a line without its comment
splitLine(s) ==
    IF strip(Head(split(s, 35))) = <<>> THEN NoFields
    ELSE split(strip(Head(split(s, 35))), 59)

\* where the runs of separators of s begin, and where they end
runStarts(s, seps) ==
    {i \in 1..Len(s) : s[i] \in seps /\ (i = 1 \/ s[i - 1] \notin seps)}
runEnds(s, seps) ==
    {i \in 1..Len(s) : s[i] \in seps /\ (i = Len(s) \/ s[i + 1] \notin seps)}

\* re.split of s on the runs of separators: a run is one separator
splitRuns(s, seps) ==
    [k \in 1..(Cardinality(runStarts(s, seps)) + 1) |->
        SubSeq(s, nthOf(runEnds(s, seps), k - 1, 0) + 1,
                  nthOf(runStarts(s, seps), k, Len(s) + 1) - 1)]

isHexDigit(c) == c \in (48..57) \cup (65..70) \cup (97..102)
hexDigitValue(c) ==
    IF c <= 57 THEN c - 48 ELSE IF c <= 70 THEN c - 55 ELSE c - 87

\* whether int(s, 16) returns: s is read as a run of hexadecimal digits
\* (signs, the 0x prefix and underscores are left out)
intHexOk(s) == s # <<>> /\ \A i \in 1..Len(s) : isHexDigit(s[i])

RECURSIVE intHex(_)
\* int(s, 16)
intHex(s) ==
    IF s = <<>> THEN 0
    ELSE intHex(SubSeq(s, 1, Len(s) - 1)) * 16 + hexDigitValue(s[Len(s)])

\* splitRange: (start, end) of HEX or HEX..HEX; ok is FALSE when int()
\* raises ValueError
splitRangeOf(ep) ==
    IF ~intHexOk(strip(ep[1])) THEN [ok |-> FALSE, fcp |-> 0, lcp |-> 0]
    ELSE IF Len(ep) < 2
    THEN [ok |-> TRUE, fcp |-> intHex(strip(ep[1])),
          lcp |-> intHex(strip(ep[1]))]
    ELSE IF ~intHexOk(strip(ep[2])) THEN [ok |-> FALSE, fcp |-> 0, lcp |-> 0]
    ELSE [ok |-> TRUE, fcp |-> intHex(strip(ep[1])),
          lcp |-> intHex(strip(ep[2]))]

\* re.split('[.]+', s) gives the end points
splitRange(s) == splitRangeOf(splitRuns(s, {46}))

\* '%04X' % n
format04X(n) == formatHex(IntOf(n))

\* joinRange
joinRange(entry) ==
    IF entry.firstCodePoint = entry.lastCodePoint
    THEN format04X(entry.firstCodePoint)
    ELSE format04X(entry.firstCodePoint) \o <<46, 46>>
         \o format04X(entry.lastCodePoint)

----------------------------------------------------------------------------
(* Entries from a map of code points to values.  A dict is a function on   *)
(* the finite set of its keys.                                             *)

EmptyMap == [cp \in {} |-> None]

\* values[cp] = v for cp in range(fcp, lcp+1)
setRange(m, fcp, lcp, v) ==
    [cp \in DOMAIN m \cup (fcp..lcp) |->
        IF cp \in fcp..lcp THEN v ELSE m[cp]]

\* the members of a finite set of numbers, ascending
ascendingKeys(S) ==
    [i \in 1..Cardinality(S) |->
        CHOOSE x \in S : Cardinality({y \in S : y <= x}) = i]

\* sortedMap: the keys of the items kept, ascending.  The items whose value
\* is None or '' are dropped; S is the kind of entry the map is for, and
\* only a map for string entries can hold such a value
sortedMap(m, S) ==
    IF S = SINGLE
    THEN ascendingKeys({cp \in DOMAIN m : m[cp] # None /\ m[cp] # <<>>})
    ELSE ascendingKeys(DOMAIN m)

\* S(f, l, v) and M(f, l, vs) for the entry class of kind S or M
makeEntry(S, f, l, v) ==
    [type |-> S, firstCodePoint |-> f, lastCodePoint |-> l, value |-> v]

\* appendToEntry without the test of the end of the plane
appendToEntryOkAcrossPlanes(entry, cp, value) ==
    /\ entry.lastCodePoint + 1 = cp
    /\ \/ entry.type \in {MULTIPLE, HEXMULTIPLE}
       \/ /\ entry.type \in {SINGLE, BOOLEAN_, DECIMAL, HEXADECIMAL,
                             HEXSEQUENCE}
          /\ entry.value = value

\* appendToEntry returns True (and has extended the entry), for an entry
\* that is not None
appendToEntryOk(entry, cp, value) ==
    /\ entry.lastCodePoint % 65536 # 65535
    /\ entry.lastCodePoint + 1 = cp
    /\ \/ entry.type \in {MULTIPLE, HEXMULTIPLE}
       \/ /\ entry.type \in {SINGLE, BOOLEAN_, DECIMAL, HEXADECIMAL,
                             HEXSEQUENCE}
          /\ entry.value = value

\* the entry appendToEntry has extended
appendToEntry(entry, cp, value) ==
    IF entry.type \in {MULTIPLE, HEXMULTIPLE}
    THEN [entry EXCEPT !.lastCodePoint = @ + 1, !.value = Append(@, value)]
    ELSE [entry EXCEPT !.lastCodePoint = @ + 1]

RECURSIVE runsFromItems(_, _, _, _)
\* the loop of __runsFromMap and of __entriesFromMap; currentRun is the
\* last run, and None when there is no run yet
runsFromItems(m, keys, runs, S) ==
    IF keys = <<>> THEN runs
    ELSE IF /\ runs # <<>>
            /\ appendToEntryOk(runs[Len(runs)], Head(keys), m[Head(keys)])
    THEN runsFromItems(m, Tail(keys),
            [runs EXCEPT ![Len(runs)] =
                appendToEntry(@, Head(keys), m[Head(keys)])], S)
    ELSE runsFromItems(m, Tail(keys),
            Append(runs, makeEntry(S, Head(keys), Head(keys), m[Head(keys)])),
            S)

\* __runsFromMap(m, S), which is __entriesFromMap(m, S) too
runsFromMap(m, S) == runsFromItems(m, sortedMap(m, S), <<>>, S)

RECURSIVE entriesFromRunsLoop(_, _, _, _)
\* the first loop of __entriesFromRuns; current tells whether currentEntry
\* is the last entry (it is None otherwise)
entriesFromRunsLoop(runs, entries, current, M) ==
    IF runs = <<>> THEN entries
    ELSE IF Head(runs).firstCodePoint # Head(runs).lastCodePoint
    THEN entriesFromRunsLoop(Tail(runs), Append(entries, Head(runs)), FALSE, M)
    ELSE IF /\ current
            /\ appendToEntryOk(entries[Len(entries)],
                               Head(runs).firstCodePoint, Head(runs).value)
    THEN entriesFromRunsLoop(Tail(runs),
            [entries EXCEPT ![Len(entries)] =
                appendToEntry(@, Head(runs).firstCodePoint, Head(runs).value)],
            TRUE, M)
    ELSE entriesFromRunsLoop(Tail(runs),
            Append(entries, makeEntry(M, Head(runs).firstCodePoint,
                                      Head(runs).lastCodePoint,
                                      <<Head(runs).value>>)),
            TRUE, M)

\* the second loop of __entriesFromRuns: an entry of one code point becomes
\* an S of its first value
promoteSingles(entries, S) ==
    [i \in 1..Len(entries) |->
        IF entries[i].firstCodePoint = entries[i].lastCodePoint
        THEN makeEntry(S, entries[i].firstCodePoint, entries[i].lastCodePoint,
                       entries[i].value[1])
        ELSE entries[i]]

\* __entriesFromRuns(runs, M, S)
entriesFromRuns(runs, M, S) ==
    promoteSingles(entriesFromRunsLoop(runs, <<>>, FALSE, M), S)

entriesFromStringMap(m) ==
    entriesFromRuns(runsFromMap(m, SINGLE), MULTIPLE, SINGLE)
entriesFromBooleanMap(m) == runsFromMap(m, BOOLEAN_)
entriesFromDecimalMap(m) == runsFromMap(m, DECIMAL)
entriesFromHexadecimalMap(m) ==
    entriesFromRuns(runsFromMap(m, HEXADECIMAL), HEXMULTIPLE, HEXADECIMAL)
entriesFromHexSequenceMap(m) == runsFromMap(m, HEXSEQUENCE)

\* the code points of the entry that have a value
valuedCodePoints(entry) ==
    {cp \in entry.firstCodePoint..entry.lastCodePoint :
        PuaaEntry_propertyValue(entry, cp) # None}

\* the inner loop with "m[cp] = value" in both branches
mapAddOverwriting(m, entry) ==
    [cp \in DOMAIN m \cup valuedCodePoints(entry) |->
        IF cp \notin valuedCodePoints(entry) THEN m[cp]
        ELSE PuaaEntry_propertyValue(entry, cp)]

\* the inner loop of mapFromEntries for one entry
mapAdd(m, entry) ==
    [cp \in DOMAIN m \cup valuedCodePoints(entry) |->
        IF cp \notin valuedCodePoints(entry) THEN m[cp]
        ELSE IF cp \in DOMAIN m
        THEN m[cp] \o PuaaEntry_propertyValue(entry, cp)
        ELSE PuaaEntry_propertyValue(entry, cp)]

RECURSIVE mapFromEntries(_)
mapFromEntries(entries) ==
    IF entries = <<>> THEN EmptyMap
    ELSE mapAdd(mapFromEntries(SubSeq(entries, 1, Len(entries) - 1)),
                entries[Len(entries)])

\* runsFromEntries
runsFromEntries(entries) == runsFromMap(mapFromEntries(entries), SINGLE)

----------------------------------------------------------------------------
(* The codecs of Blocks.txt and of GraphemeBreakProperty.txt, a            *)
(* PuaaCategoryCodec.                                                      *)

Block == <<66, 108, 111, 99, 107>>
Grapheme_Cluster_Break ==
    <<71, 114, 97, 112, 104, 101, 109, 101, 95, 67, 108, 117, 115, 116, 101,
      114, 95, 66, 114, 101, 97, 107>>

\* puaa.subtable(propertyName, True).entries += entries
appendEntries(subtables, propertyName, entries) ==
    [PuaaTable_subtable(subtables, propertyName) EXCEPT
        ![subtableIndex(PuaaTable_subtable(subtables, propertyName),
                        propertyName)].entries = @ \o entries]

\* what one line of Blocks.txt appends: nothing when the line has fewer
\* than two fields or its range does not parse
blocksLine(fields) ==
    IF fields = NoFields THEN <<>>
    ELSE IF Len(fields) < 2 THEN <<>>
    ELSE IF ~splitRange(fields[1]).ok THEN <<>>
    ELSE <<SingleEntry(splitRange(fields[1]).fcp, splitRange(fields[1]).lcp,
                       strip(fields[2]))>>

RECURSIVE blocksEntries(_)
blocksEntries(f) ==
    IF f = <<>> THEN <<>>
    ELSE blocksLine(splitLine(Head(f))) \o blocksEntries(Tail(f))

\* BlocksCodec.compile(puaa, f)
BlocksCodec_compile(subtables, f) ==
    appendEntries(subtables, Block, blocksEntries(f))

\* what one line of a category file does to values
categoryLine(fields, values) ==
    IF fields = NoFields THEN values
    ELSE IF Len(fields) < 2 THEN values
    ELSE IF ~splitRange(fields[1]).ok THEN values
    ELSE setRange(values, splitRange(fields[1]).fcp,
                  splitRange(fields[1]).lcp, strip(fields[2]))

RECURSIVE categoryValues(_, _)
categoryValues(f, values) ==
    IF f = <<>> THEN values
    ELSE categoryValues(Tail(f), categoryLine(splitLine(Head(f)), values))

\* PuaaCategoryCodec.compile(puaa, f)
PuaaCategoryCodec_compile(subtables, propertyName, f) ==
    appendEntries(subtables, propertyName,
                  entriesFromStringMap(categoryValues(f, EmptyMap)))

----------------------------------------------------------------------------
(* Entries from a map of code points to names.                             *)

\* the characters of the first class of splitName's pattern: \w and the
\* punctuation kept with a word (characters above Latin-1 count as \w)
isNameWord(c) ==
    \/ c \in (48..57) \cup (65..90) \cup (97..122)
    \/ c \in {34, 35, 36, 37, 38, 39, 40, 41, 42, 60, 62, 64, 91, 93, 95,
              123, 125}
    \/ c \in {170, 178, 179, 181, 185, 186, 188, 189, 190}
    \/ c \in (192..214) \cup (216..246) \cup (248..255)
    \/ c > 255

\* the class of a character in splitName's pattern: word, punctuation,
\* space; a match is words, then punctuation, then spaces
nameClass(c) == IF isNameWord(c) THEN 1 ELSE IF isSpace(c) THEN 3 ELSE 2

\* where the non-empty matches begin: at the start, and wherever the class
\* falls back
nameTokenStarts(s) ==
    {i \in 1..Len(s) : i = 1 \/ nameClass(s[i]) < nameClass(s[i - 1])}

\* splitName: the non-empty matches of the pattern, which tile s
splitName(s) ==
    [k \in 1..Cardinality(nameTokenStarts(s)) |->
        SubSeq(s, nthOf(nameTokenStarts(s), k, 0),
                  nthOf(nameTokenStarts(s), k + 1, Len(s) + 1) - 1)]

itemsOfKeys(m, keys) ==
    [i \in 1..Len(keys) |-> [cp |-> keys[i], words |-> splitName(m[keys[i]])]]

\* sortedNameMap
sortedNameMap(m) == itemsOfKeys(m, sortedMap(m, SINGLE))

\* the word a pass looks at: the first of the words, or the last
nameWord(words, front) == IF front THEN words[1] ELSE words[Len(words)]

RECURSIVE nameRunEnd(_, _, _, _)
\* the inner while loop of a pass: the last item the entry begun at an
\* earlier item, and extended up to item k, is extended to
nameRunEnd(items, k, word, front) ==
    IF /\ k < Len(items)
       /\ items[k + 1].words # <<>>
       /\ items[k].cp % 65536 # 65535
       /\ items[k].cp + 1 = items[k + 1].cp
       /\ nameWord(items[k + 1].words, front) = word
    THEN nameRunEnd(items, k + 1, word, front)
    ELSE k

\* items[o][1].pop(0), or pop(-1), for the items i .. e
popWords(items, i, e, front) ==
    [k \in 1..Len(items) |->
        IF k < i \/ k > e THEN items[k]
        ELSE [items[k] EXCEPT !.words =
                IF front THEN Tail(@) ELSE SubSeq(@, 1, Len(@) - 1)]]

RECURSIVE namePass(_, _, _, _)
\* one pass of the outer while loop over the items from i on
namePass(items, i, found, front) ==
    IF i > Len(items) THEN [found |-> found, items |-> items]
    ELSE IF items[i].words = <<>> THEN namePass(items, i + 1, found, front)
    ELSE IF nameRunEnd(items, i, nameWord(items[i].words, front), front) = i
    THEN namePass(items, i + 1, found, front)
    ELSE namePass(
            popWords(items, i,
                     nameRunEnd(items, i, nameWord(items[i].words, front),
                                front), front),
            nameRunEnd(items, i, nameWord(items[i].words, front), front) + 1,
            Append(found,
                   SingleEntry(items[i].cp,
                               items[nameRunEnd(items, i,
                                        nameWord(items[i].words, front),
                                        front)].cp,
                               nameWord(items[i].words, front))),
            front)

RECURSIVE namePasses(_, _, _)
\* the passes of one of the two outer loops, until a pass finds no entry;
\* r is what the pass before gave, all the entries of the passes before it
namePasses(r, all, front) ==
    IF r.found = <<>> THEN [found |-> all, items |-> r.items]
    ELSE namePasses(namePass(r.items, 1, <<>>, front),
                    IF front THEN all \o r.found ELSE r.found \o all, front)

\* the loop for the common prefixes, or the one for the common suffixes
nameRuns(items, front) ==
    namePasses(namePass(items, 1, <<>>, front), <<>>, front)

\* value.encode('utf-16be'), as 16-bit code units
utf16Char(c) ==
    IF c < 65536 THEN <<c>>
    ELSE <<55296 + (c - 65536) \div 1024, 56320 + ((c - 65536) % 1024)>>

utf16(s) == Concat([i \in 1..Len(s) |-> utf16Char(s[i])])

\* the number of code units of the first half of u, one more when the half
\* ends with the first unit of a surrogate pair
utf16Cut(u) ==
    IF u[Len(u) \div 2] \div 1024 = 54
    THEN Len(u) \div 2 + 1 ELSE Len(u) \div 2

RECURSIVE utf16Decode(_)
\* decode('utf-16be') of well-formed code units: the characters of the
\* units up to utf16Cut, then those of the rest
utf16Decode(u) ==
    IF u = <<>> THEN <<>>
    ELSE IF Len(u) = 1 THEN u
    ELSE IF Len(u) = 2 /\ u[1] \div 1024 = 54
    THEN <<65536 + (u[1] - 55296) * 1024 + (u[2] - 56320)>>
    ELSE utf16Decode(SubSeq(u, 1, utf16Cut(u)))
         \o utf16Decode(SubSeq(u, utf16Cut(u) + 1, Len(u)))

\* h: half the number of code units, one more when the unit at h is the
\* second of a surrogate pair
nameSplitAt(u) ==
    IF u[Len(u) \div 2 + 1] \div 1024 = 55
    THEN Len(u) \div 2 + 1 ELSE Len(u) \div 2

\* whether the value of an item goes to both remainders
nameIsLong(value) == Len(encode(value)) > 255

remainder1Of(value) ==
    IF nameIsLong(value)
    THEN utf16Decode(SubSeq(utf16(value), 1, nameSplitAt(utf16(value))))
    ELSE value

remainder2Of(value) ==
    utf16Decode(SubSeq(utf16(value), nameSplitAt(utf16(value)) + 1,
                       Len(utf16(value))))

\* remainder1 and remainder2 of the items that have words left
remainder1(items) ==
    [cp \in {items[i].cp : i \in {j \in 1..Len(items) : items[j].words # <<>>}}
        |-> remainder1Of(Concat(
                (CHOOSE it \in {items[i] : i \in 1..Len(items)} : it.cp = cp)
                .words))]

remainder2(items) ==
    [cp \in {items[i].cp : i \in {j \in 1..Len(items) :
                /\ items[j].words # <<>>
                /\ nameIsLong(Concat(items[j].words))}}
        |-> remainder2Of(Concat(
                (CHOOSE it \in {items[i] : i \in 1..Len(items)} : it.cp = cp)
                .words))]

\* prefixes + entriesFromStringMap(remainder1)
\*          + entriesFromStringMap(remainder2) + suffixes
nameEntries(prefixes, r) ==
    prefixes \o entriesFromStringMap(remainder1(r.items))
             \o entriesFromStringMap(remainder2(r.items)) \o r.found

nameSuffixes(p) == nameEntries(p.found, nameRuns(p.items, FALSE))

\* entriesFromNameMap
entriesFromNameMap(m) == nameSuffixes(nameRuns(sortedNameMap(m), TRUE))

----------------------------------------------------------------------------
(* The codec of UnicodeData.txt.                                           *)

\* the property names of UnicodeDataCodec, in the order compile fills them
UnicodeDataProperties ==
    << <<78, 97, 109, 101>>,
       <<71, 101, 110, 101, 114, 97, 108, 95, 67, 97, 116, 101, 103, 111,
             114, 121>>,
       <<67, 97, 110, 111, 110, 105, 99, 97, 108, 95, 67, 111, 109, 98, 105,
             110, 105, 110, 103, 95, 67, 108, 97, 115, 115>>,
       <<66, 105, 100, 105, 95, 67, 108, 97, 115, 115>>,
       <<68, 101, 99, 111, 109, 112, 111, 115, 105, 116, 105, 111, 110, 95,
             84, 121, 112, 101>>,
       <<68, 101, 99, 111, 109, 112, 111, 115, 105, 116, 105, 111, 110, 95,
             77, 97, 112, 112, 105, 110, 103>>,
       <<78, 117, 109, 101, 114, 105, 99, 95, 84, 121, 112, 101>>,
       <<78, 117, 109, 101, 114, 105, 99, 95, 86, 97, 108, 117, 101>>,
       <<66, 105, 100, 105, 95, 77, 105, 114, 114, 111, 114, 101, 100>>,
       <<85, 110, 105, 99, 111, 100, 101, 95, 49, 95, 78, 97, 109, 101>>,
       <<73, 83, 79, 95, 67, 111, 109, 109, 101, 110, 116>>,
       <<83, 105, 109, 112, 108, 101, 95, 85, 112, 112, 101, 114, 99, 97,
             115, 101, 95, 77, 97, 112, 112, 105, 110, 103>>,
       <<83, 105, 109, 112, 108, 101, 95, 76, 111, 119, 101, 114, 99, 97,
             115, 101, 95, 77, 97, 112, 112, 105, 110, 103>>,
       <<83, 105, 109, 112, 108, 101, 95, 84, 105, 116, 108, 101, 99, 97,
             115, 101, 95, 77, 97, 112, 112, 105, 110, 103>> >>

\* whether int(s) returns: s is read as an optional sign and decimal digits
intDecOk(s) ==
    /\ s # <<>>
    /\ IF s[1] \in {43, 45} THEN Len(s) > 1 ELSE TRUE
    /\ \A i \in 1..Len(s) : s[i] \in 48..57 \/ (i = 1 /\ s[i] \in {43, 45})

RECURSIVE intDigits(_)
intDigits(s) ==
    IF s = <<>> THEN 0
    ELSE intDigits(SubSeq(s, 1, Len(s) - 1)) * 10 + (s[Len(s)] - 48)

\* int(s)
intDec(s) ==
    IF s[1] = 45 THEN 0 - intDigits(Tail(s))
    ELSE IF s[1] = 43 THEN intDigits(Tail(s))
    ELSE intDigits(s)

RECURSIVE joinSpace(_)
\* ' '.join(words)
joinSpace(words) ==
    IF words = <<>> THEN <<>>
    ELSE IF Len(words) = 1 THEN words[1]
    ELSE words[1] \o <<32>> \o joinSpace(Tail(words))

RECURSIVE selectWords(_, _)
\* the words int(word, 16) accepts (hex), or the others, in order
selectWords(words, hex) ==
    IF words = <<>> THEN <<>>
    ELSE IF intHexOk(strip(Head(words))) = hex
    THEN <<Head(words)>> \o selectWords(Tail(words), hex)
    ELSE selectWords(Tail(words), hex)

hexValues(words) == [i \in 1..Len(words) |-> IntOf(intHex(strip(words[i])))]

\* the types and the mappings of the decomposition column, which
\* re.split('\\s+', ...) splits into words
decompositionWords(field, hex) ==
    selectWords(splitRuns(strip(field), Spaces), hex)

\* the first of the three numeric columns that is not empty: 0 when all are
numericColumn(fields) ==
    IF strip(fields[7]) # <<>> THEN 7
    ELSE IF strip(fields[8]) # <<>> THEN 8
    ELSE IF strip(fields[9]) # <<>> THEN 9
    ELSE 0

\* the loop assigning the name and the general category only
unicodeDataHasNameAndCategory(k, fields) ==
    k \in {1, 2} /\ strip(fields[k + 1]) # <<>>

\* whether the body of the loop of UnicodeDataCodec.compile assigns to the
\* k-th map for a line of these fields
unicodeDataHas(k, fields) ==
    CASE k = 1 -> strip(fields[2]) # <<>>
      [] k = 2 -> strip(fields[3]) # <<>>
      [] k = 3 -> intDecOk(strip(fields[4]))
      [] k = 4 -> strip(fields[5]) # <<>>
      [] k = 5 -> /\ strip(fields[6]) # <<>>
                  /\ decompositionWords(fields[6], FALSE) # <<>>
      [] k = 6 -> /\ strip(fields[6]) # <<>>
                  /\ decompositionWords(fields[6], TRUE) # <<>>
      [] k \in {7, 8} -> numericColumn(fields) # 0
      [] k = 9 -> strip(fields[10]) # <<>>
      [] k = 10 -> strip(fields[11]) # <<>>
      [] k = 11 -> strip(fields[12]) # <<>>
      [] k \in {12, 13, 14} ->
            k + 1 <= Len(fields) /\ intHexOk(strip(fields[k + 1]))

\* the value it assigns
unicodeDataValue(k, fields) ==
    CASE k \in {1, 2} -> strip(fields[k + 1])
      [] k = 3 -> IntOf(intDec(strip(fields[4])))
      [] k = 4 -> strip(fields[5])
      [] k = 5 -> joinSpace(decompositionWords(fields[6], FALSE))
      [] k = 6 -> hexValues(decompositionWords(fields[6], TRUE))
      [] k = 7 -> IF numericColumn(fields) = 7 THEN <<68, 101, 99, 105, 109,
            97, 108>>
                  ELSE IF numericColumn(fields) = 8 THEN <<68, 105, 103, 105,
                        116>>
                  ELSE <<78, 117, 109, 101, 114, 105, 99>>
      [] k = 8 -> strip(fields[numericColumn(fields)])
      [] k = 9 -> strip(fields[10]) = <<89>>
      [] k \in {10, 11} -> strip(fields[k + 1])
      [] k \in {12, 13, 14} -> IntOf(intHex(strip(fields[k + 1])))

\* the body of the loop for a line that has a code point
unicodeDataFields(maps, fields, cp) ==
    [k \in 1..14 |->
        IF unicodeDataHas(k, fields)
        THEN setRange(maps[k], cp, cp, unicodeDataValue(k, fields))
        ELSE maps[k]]

\* one line: skipped when it has fewer than twelve fields or no code point
unicodeDataLine(maps, fields) ==
    IF fields = NoFields THEN maps
    ELSE IF Len(fields) < 12 THEN maps
    ELSE IF ~intHexOk(strip(fields[1])) THEN maps
    ELSE unicodeDataFields(maps, fields, intHex(strip(fields[1])))

RECURSIVE unicodeDataMaps(_, _)
unicodeDataMaps(f, maps) ==
    IF f = <<>> THEN maps
    ELSE unicodeDataMaps(Tail(f), unicodeDataLine(maps, splitLine(Head(f))))

\* the entries of the k-th property, built by the function compile uses
unicodeDataEntries(k, m) ==
    CASE k \in {1, 10} -> entriesFromNameMap(m)
      [] k \in {2, 4, 5, 7, 8, 11} -> entriesFromStringMap(m)
      [] k = 3 -> entriesFromDecimalMap(m)
      [] k = 6 -> entriesFromHexSequenceMap(m)
      [] k = 9 -> entriesFromBooleanMap(m)
      [] k \in {12, 13, 14} -> entriesFromHexadecimalMap(m)

\* the entries of the fourteen properties, in the order compile builds them
unicodeDataAllEntries(maps) ==
    << unicodeDataEntries(1, maps[1]), unicodeDataEntries(2, maps[2]),
       unicodeDataEntries(3, maps[3]), unicodeDataEntries(4, maps[4]),
       unicodeDataEntries(5, maps[5]), unicodeDataEntries(6, maps[6]),
       unicodeDataEntries(7, maps[7]), unicodeDataEntries(8, maps[8]),
       unicodeDataEntries(9, maps[9]), unicodeDataEntries(10, maps[10]),
       unicodeDataEntries(11, maps[11]), unicodeDataEntries(12, maps[12]),
       unicodeDataEntries(13, maps[13]), unicodeDataEntries(14, maps[14]) >>

\* the properties that have no subtable yet: puaa.subtable(name, True)
\* makes one for each, in the order of the statements
unicodeDataMissing(subtables) ==
    {k \in 1..14 : subtableIndex(subtables, UnicodeDataProperties[k]) = 0}

\* the fourteen "puaa.subtable(name, True).entries +=" of compile: the
\* first subtable of a name gets the entries of that name
unicodeDataAppend(subtables, entries) ==
    [i \in 1..Len(subtables) |->
        IF \E k \in 1..14 :
              subtableIndex(subtables, UnicodeDataProperties[k]) = i
        THEN [subtables[i] EXCEPT
                 !.entries = @ \o entries[CHOOSE k \in 1..14 :
                     subtableIndex(subtables, UnicodeDataProperties[k]) = i]]
        ELSE subtables[i]]
    \o [j \in 1..Cardinality(unicodeDataMissing(subtables)) |->
           [propertyName |->
                UnicodeDataProperties[nthOf(unicodeDataMissing(subtables), j,
                      0)],
            entries |-> entries[nthOf(unicodeDataMissing(subtables), j, 0)]]]

\* UnicodeDataCodec.compile(puaa, f)
UnicodeDataCodec_compile(subtables, f) ==
    CHOOSE x \in {unicodeDataAppend(subtables, unicodeDataAllEntries(maps)) :
                     maps \in {unicodeDataMaps(f,
                           [k \in 1..14 |-> EmptyMap])}} :
        TRUE

----------------------------------------------------------------------------
(* Decompiling to text: PuaaCategoryCodec.decompile, for the codec of      *)
(* GraphemeBreakProperty.txt.                                              *)

\* the propertyValues of GraphemeBreakPropertyCodec
GraphemeBreakPropertyValues ==
    << <<80, 114, 101, 112, 101, 110, 100>>, <<67, 82>>, <<76, 70>>, <<67,
          111, 110, 116, 114, 111, 108>>, <<69, 120, 116, 101, 110, 100>>,
       <<82, 101, 103, 105, 111, 110, 97, 108, 95, 73, 110, 100, 105, 99, 97,
             116, 111, 114>>, <<83, 112, 97, 99, 105, 110, 103, 77, 97, 114,
                   107>>,
       <<76>>, <<86>>, <<84>>, <<76, 86>>, <<76, 86, 84>>, <<90, 87, 74>> >>

\* propertyValues.index(value): 0 when index() raises ValueError
indexOf(propertyValues, value) ==
    IF \A i \in 1..Len(propertyValues) : propertyValues[i] # value THEN 0
    ELSE CHOOSE i \in 1..Len(propertyValues) :
            /\ propertyValues[i] = value
            /\ \A j \in 1..(i - 1) : propertyValues[j] # value

\* the order of the sort key (index of the value, value, first, last)
categoryRunLess(a, b, propertyValues) ==
    \/ indexOf(propertyValues, a.value) < indexOf(propertyValues, b.value)
    \/ /\ indexOf(propertyValues, a.value) = indexOf(propertyValues, b.value)
       /\ \/ strLess(a.value, b.value)
          \/ /\ a.value = b.value
             /\ \/ a.firstCodePoint < b.firstCodePoint
                \/ /\ a.firstCodePoint = b.firstCodePoint
                   /\ a.lastCodePoint < b.lastCodePoint

RECURSIVE sortCategoryRuns(_, _)
\* runs.sort(key=...), for runs whose values all have an index
sortCategoryRuns(s, propertyValues) ==
    IF Len(s) <= 1 THEN s
    ELSE insertAt(sortCategoryRuns(SubSeq(s, 1, Len(s) - 1), propertyValues),
                  s[Len(s)],
                  Cardinality({i \in 1..(Len(s) - 1) :
                      ~categoryRunLess(s[Len(s)], s[i], propertyValues)}))

\* u'%-14s; %s' % (joinRange(run), run.value)
categoryLineOf(run) ==
    joinRange(run) \o [k \in 1..(14 - Len(joinRange(run))) |-> 32]
                   \o <<59, 32>> \o run.value

\* the sort and the prints of decompile for the runs of the subtable
categoryLines(runs, propertyValues) ==
    IF \E i \in 1..Len(runs) : indexOf(propertyValues, runs[i].value) = 0
    THEN [err |-> "ValueError", lines |-> <<>>]
    ELSE [err |-> "",
          lines |-> [i \in 1..Len(runs) |->
                categoryLineOf(sortCategoryRuns(runs, propertyValues)[i])]]

\* PuaaCategoryCodec.decompile(puaa, f): the lines printed to f, and the
\* exception raised
PuaaCategoryCodec_decompile(subtables, propertyName, propertyValues) ==
    IF subtableIndex(subtables, propertyName) = 0
    THEN [err |-> "", lines |-> <<>>]
    ELSE IF subtables[subtableIndex(subtables, propertyName)].entries = <<>>
    THEN [err |-> "", lines |-> <<>>]
    ELSE categoryLines(
            runsFromEntries(
                subtables[subtableIndex(subtables, propertyName)].entries),
            propertyValues)

----------------------------------------------------------------------------
(* compilePUAA: the files and directories it is given, and the codec it    *)
(* finds for a file.  Of the codecs of CODECS the three modelled above are *)
(* kept.                                                                   *)

Blocks_txt == <<66, 108, 111, 99, 107, 115, 46, 116, 120, 116>>
GraphemeBreakProperty_txt == <<71, 114, 97, 112, 104, 101, 109, 101, 66, 114,
      101, 97, 107, 80, 114, 111, 112, 101, 114, 116, 121, 46, 116, 120, 116>>
UnicodeData_txt == <<85, 110, 105, 99, 111, 100, 101, 68, 97, 116, 97, 46,
      116, 120, 116>>

\* the fileName of the codecs
CODECS == <<Blocks_txt, GraphemeBreakProperty_txt, UnicodeData_txt>>

\* fileName.lower(), of ASCII letters
lower(s) == [i \in 1..Len(s) |-> IF s[i] \in 65..90 THEN s[i] + 32 ELSE s[i]]

\* getCodec(fileName): the fileName of the codec, None when there is none
getCodec(fileName) ==
    IF \A i \in 1..Len(CODECS) : lower(CODECS[i]) # lower(fileName) THEN None
    ELSE CODECS[CHOOSE i \in 1..Len(CODECS) :
                    lower(CODECS[i]) = lower(fileName)]

\* codec.compile(puaa, f) of the codec of that fileName
codecCompile(codec, subtables, f) ==
    CASE codec = Blocks_txt -> BlocksCodec_compile(subtables, f)
      [] codec = GraphemeBreakProperty_txt ->
            PuaaCategoryCodec_compile(subtables, Grapheme_Cluster_Break, f)
      [] codec = UnicodeData_txt -> UnicodeDataCodec_compile(subtables, f)

\* os.path.basename(path)
basename(path) ==
    SubSeq(path, nthOf({i \in 1..Len(path) : path[i] = 47},
                       Cardinality({i \in 1..Len(path) : path[i] = 47}), 0)
                 + 1, Len(path))

\* os.path.join(path, f)
pathJoin(path, f) == path \o <<47>> \o f

\* the lines of the files the codecs are given
BlocksScenario == << <<70, 49, 57, 48, 48, 46, 46, 70, 49, 57, 70, 70, 59,
      32, 83, 105, 116, 101, 108, 101, 110, 32, 80, 111, 110, 97, 10>> >>
BlocksStraddling == << <<70, 70, 70, 69, 46, 46, 49, 48, 48, 48, 49, 59, 32,
      88, 10>>, <<48, 48, 48, 53, 46, 46, 48, 48, 48, 51, 59, 32, 89, 10>> >>
BlocksUnparsed == << <<90, 90, 59, 32, 65, 10>>, <<48, 48, 52, 49, 59, 32,
      65, 32, 35, 32, 111, 110, 101, 10>> >>
GraphemeRuns == << <<48, 48, 52, 49, 59, 32, 76, 10>>, <<48, 48, 52, 50, 59,
      32, 86, 10>>, <<48, 48, 52, 51, 59, 32, 86, 10>> >>
GraphemeStraddling == << <<70, 70, 70, 69, 46, 46, 49, 48, 48, 48, 49, 59,
      32, 86, 10>>, <<35, 32, 110, 111, 110, 101, 10>> >>
GraphemeUnlisted == << <<48, 48, 52, 49, 46, 46, 48, 48, 52, 50, 59, 32, 88,
      10>> >>
GraphemeUnparsed == << <<48, 48, 52, 49, 59, 76, 10>>, <<48, 120, 59, 32, 86,
      10>>, <<48, 48, 52, 51, 46, 46, 48, 48, 52, 52, 59, 32, 76, 10>> >>
UnicodeDataScenario == << <<70, 49, 57, 48, 48, 59, 83, 73, 84, 69, 76, 69,
      78, 32, 80, 79, 78, 65, 32, 65, 59, 76, 111, 59, 48, 59, 76, 59, 59,
            59, 59, 59, 78, 59, 59, 59, 59, 59, 10>> >>
UnicodeDataPair ==
    << <<70, 49, 57, 48, 48, 59, 83, 73, 84, 69, 76, 69, 78, 32, 80, 79, 78,
          65, 32, 65, 59, 76, 111, 59, 48, 59, 76, 59, 59, 59, 59, 59, 78,
                59, 59, 59, 59, 59, 10>>,
       <<70, 49, 57, 48, 49, 59, 83, 73, 84, 69, 76, 69, 78, 32, 80, 79, 78,
             65, 32, 69, 59, 76, 111, 59, 48, 59, 76, 59, 59, 59, 59, 59, 78,
                   59, 59, 59, 59, 59, 10>> >>
Notes == << <<48, 48, 52, 49, 59, 32, 65, 10>> >>

\* the files a codec is asked to compile directly
FilesOf(codec) ==
    CASE codec = Blocks_txt ->
            {BlocksScenario, BlocksStraddling}
      [] codec = GraphemeBreakProperty_txt ->
            {GraphemeRuns, GraphemeStraddling, GraphemeUnlisted}
      [] codec = UnicodeData_txt ->
            {UnicodeDataScenario, UnicodeDataPair}

\* the file system compilePUAA reads: a directory, and the files in it and
\* beside it
ucd == <<117, 99, 100>>
DirectoryNames == { <<66, 108, 111, 99, 107, 115, 46, 116, 120, 116>>, <<110,
      111, 116, 101, 115, 46, 116, 120, 116>>, <<46, 104, 105, 100, 100, 101,
            110>> }
FilePaths ==
    { <<117, 99, 100, 47, 66, 108, 111, 99, 107, 115, 46, 116, 120, 116>>,
          <<117, 99, 100, 47, 110, 111, 116, 101, 115, 46, 116, 120, 116>>,
                <<117, 99, 100, 47, 46, 104, 105, 100, 100, 101, 110>>,
      <<110, 111, 116, 101, 115, 46, 116, 120, 116>>, <<98, 108, 111, 99,
            107, 115, 46, 84, 88, 84>>, <<71, 114, 97, 112, 104, 101, 109,
                  101, 66, 114, 101, 97, 107, 80, 114, 111, 112, 101, 114,
                        116, 121, 46, 116, 120, 116>> }

\* os.path.isdir(path)
isdir(path) == path = ucd

\* the lines of the file at a path
linesAt(path) ==
    CASE path = <<117, 99, 100, 47, 66, 108, 111, 99, 107, 115, 46, 116, 120,
          116>> -> BlocksUnparsed
      [] path = <<98, 108, 111, 99, 107, 115, 46, 84, 88,
            84>> -> BlocksScenario
      [] path = <<71, 114, 97, 112, 104, 101, 109, 101, 66, 114, 101, 97,
            107, 80, 114, 111, 112, 101, 114, 116, 121, 46, 116, 120,
                  116>> -> GraphemeUnparsed
      [] OTHER -> Notes

\* the paths compilePUAA is given by the caller: the directory, files of a
\* codec, a file of no codec, and a path where there is no file
ExplicitPaths ==
    { ucd, <<98, 108, 111, 99, 107, 115, 46, 84, 88, 84>>, <<71, 114, 97,
          112, 104, 101, 109, 101, 66, 114, 101, 97, 107, 80, 114, 111, 112,
                101, 114, 116, 121, 46, 116, 120, 116>>, <<110, 111, 116,
                      101, 115, 46, 116, 120, 116>>,
      <<110, 111, 110, 101, 47, 66, 108, 111, 99, 107, 115, 46, 116, 120,
            116>> }

\* the orders os.listdir may list the directory in
Listings ==
    {ls \in [1..Cardinality(DirectoryNames) -> DirectoryNames] :
        \A i, j \in 1..Cardinality(DirectoryNames) : i # j => ls[i] # ls[j]}

\* the else branch of compilePUAA's compile(path): a file of no codec is
\* passed over, a path without a file makes io.open raise
compileFile(r, path) ==
    IF getCodec(basename(path)) = None THEN r
    ELSE IF path \notin FilePaths THEN [r EXCEPT !.err = "IOError"]
    ELSE [r EXCEPT !.subtables =
            codecCompile(getCodec(basename(path)), @, linesAt(path))]

RECURSIVE compileListed(_, _, _, _)
\* the if branch: the first k names of the listing, those that begin with
\* a dot left out
compileListed(r, path, ls, k) ==
    IF k = 0 THEN r
    ELSE IF compileListed(r, path, ls, k - 1).err # ""
    THEN compileListed(r, path, ls, k - 1)
    ELSE IF ls[k][1] = 46 THEN compileListed(r, path, ls, k - 1)
    ELSE compileFile(compileListed(r, path, ls, k - 1), pathJoin(path, ls[k]))

\* compile(path); the directory of the model holds files only
compilePath(r, path, ls) ==
    IF isdir(path) THEN compileListed(r, path, ls, Len(ls))
    ELSE compileFile(r, path)

RECURSIVE compilePaths(_, _, _)
\* for path in paths: compile(path), stopped by the first exception
compilePaths(paths, ls, k) ==
    IF k = 0 THEN [err |-> "", subtables |-> <<>>]
    ELSE IF compilePaths(paths, ls, k - 1).err # ""
    THEN compilePaths(paths, ls, k - 1)
    ELSE compilePath(compilePaths(paths, ls, k - 1), paths[k], ls)

\* compilePUAA(paths), os.listdir listing the directory as ls
compilePUAA(paths, ls) == compilePaths(paths, ls, Len(paths))

----------------------------------------------------------------------------
(* The text pipeline: codecs compile files into one PuaaTable, the table   *)
(* is compiled to a blob, blobs are decompiled into a table, and a codec   *)
(* decompiles the table to text.                                           *)

\* data with the version of its header replaced
withVersion(d, version) == shortStruct_pack(version) \o SubSeq(d, 3, Len(d))

\* a version that is not 1
OtherVersion == 2

TextInit ==
    /\ tpuaa = <<>>
    /\ tpuaaBefore = <<>>
    /\ tblob = <<>>
    /\ tops = <<>>
    /\ tpaths = [paths |-> <<>>, listing |-> <<>>]
    /\ tdata = <<>>
    /\ terr = ""
    /\ tout = <<>>

\* codec.compile(puaa, f)
CodecCompile(codec, f) ==
    /\ Len(tops) < MaxCalls
    /\ terr = ""
    /\ tpuaaBefore' = tpuaa
    /\ tpuaa' = codecCompile(codec, tpuaa, f)
    /\ tops' = Append(tops, [op |-> "codec.compile", name |-> codec])
    /\ UNCHANGED <<tblob, tpaths, tdata, terr, tout,
                   codecVars, fontVars, headerVars, lookupVars, mergeVars, hackVars, copyVars, againVars, convVars, mapVars>>

\* puaa = compilePUAA(paths), the first thing the compile command does
CompilePUAA(paths, ls) ==
    /\ tops = <<>>
    /\ \E r \in {compilePUAA(paths, ls)} :
           /\ tpuaa' = IF r.err = "" THEN r.subtables ELSE tpuaa
           /\ terr' = r.err
    /\ tpuaaBefore' = tpuaa
    /\ tpaths' = [paths |-> paths, listing |-> ls]
    /\ tops' = Append(tops, [op |-> "compilePUAA", name |-> <<>>])
    /\ UNCHANGED <<tblob, tdata, tout, codecVars, fontVars, headerVars, lookupVars, mergeVars, hackVars, copyVars, againVars, convVars, mapVars>>

\* puaa.compile(), as writePUAA calls it
TableCompile ==
    /\ Len(tops) < MaxCalls
    /\ terr = ""
    /\ \E r \in {PuaaTable_compile(tpuaa)} :
           /\ tpuaa' = r.subtables
           /\ tblob' = r.data
           /\ terr' = r.err
    /\ tpuaaBefore' = tpuaa
    /\ tops' = Append(tops, [op |-> "compile", name |-> <<>>])
    /\ UNCHANGED <<tpaths, tdata, tout, codecVars, fontVars, headerVars, lookupVars, mergeVars, hackVars, copyVars, againVars, convVars, mapVars>>

\* puaa.decompile(d), as readUCD calls it on the table it was given or on
\* a new one
TableDecompile(new, d) ==
    /\ Len(tops) < MaxCalls
    /\ terr = ""
    /\ tblob # <<>>
    /\ \E r \in {PuaaTable_decompile(IF new THEN <<>> ELSE tpuaa, d)} :
           /\ tpuaa' = r.subtables
           /\ terr' = r.err
    /\ tpuaaBefore' = IF new THEN <<>> ELSE tpuaa
    /\ tdata' = d
    /\ tops' = Append(tops, [op |-> "decompile", name |-> <<>>])
    /\ UNCHANGED <<tblob, tpaths, tout, codecVars, fontVars, headerVars, lookupVars, mergeVars, hackVars, copyVars, againVars, convVars, mapVars>>

\* GraphemeBreakPropertyCodec().decompile(puaa, f)
CodecDecompile ==
    /\ Len(tops) < MaxCalls
    /\ terr = ""
    /\ \E r \in {PuaaCategoryCodec_decompile(tpuaa, Grapheme_Cluster_Break,
                                             GraphemeBreakPropertyValues)} :
           /\ tout' = r.lines
           /\ terr' = r.err
    /\ tpuaaBefore' = tpuaa
    /\ tops' = Append(tops, [op |-> "codec.decompile",
                             name |-> GraphemeBreakProperty_txt])
    /\ UNCHANGED <<tpuaa, tblob, tpaths, tdata, codecVars, fontVars,
          headerVars, lookupVars, mergeVars, hackVars, copyVars, againVars, convVars, mapVars>>

TextNext ==
    \/ \E i \in 1..Len(CODECS) : \E f \in FilesOf(CODECS[i]) :
          CodecCompile(CODECS[i], f)
    \/ \E paths \in {<<p>> : p \in ExplicitPaths}
                    \cup {<<p, q>> : p \in {ucd}, q \in ExplicitPaths} :
          \E ls \in Listings : CompilePUAA(paths, ls)
    \/ TableCompile
    \/ \E new \in BOOLEAN : \E d \in {tblob, withVersion(tblob,
          OtherVersion)} :
          TableDecompile(new, d)
    \/ CodecDecompile

----------------------------------------------------------------------------
(* Looking one code point up in a list of entries that may overlap:       *)
(* PuaaSubtable.propertyValue(cp) and mapFromEntries(entries).            *)

\* the entry lists looked up: up to MaxLookupEntries entries, in any order
EntryLists ==
    UNION {[1..n -> {EntryUniverse[i] : i \in 1..Len(EntryUniverse)}] :
              n \in 0..MaxLookupEntries}

LookupIdle ==
    /\ lkEntries = <<>>
    /\ lkCp = 0
    /\ lkValue = None
    /\ lkMap = EmptyMap
    /\ lkPc = "idle"

LookupInit ==
    /\ lkEntries \in EntryLists
    /\ lkCp \in CodePoints
    /\ lkValue = None
    /\ lkMap = EmptyMap
    /\ lkPc = "idle"

\* subtable.propertyValue(lkCp)
LookupPropertyValue ==
    /\ lkPc = "idle"
    /\ lkValue' = PuaaSubtable_propertyValue(
                     [propertyName |-> sName, entries |-> lkEntries], lkCp)
    /\ lkPc' = "looked"
    /\ UNCHANGED <<lkEntries, lkCp, lkMap, codecVars, fontVars, headerVars, textVars, mergeVars, hackVars, copyVars, againVars, convVars, mapVars>>

\* mapFromEntries(subtable.entries)
LookupMapFromEntries ==
    /\ lkPc = "looked"
    /\ lkMap' = mapFromEntries(lkEntries)
    /\ lkPc' = "mapped"
    /\ UNCHANGED <<lkEntries, lkCp, lkValue, codecVars, fontVars, headerVars, textVars, mergeVars, hackVars, copyVars, againVars, convVars, mapVars>>

LookupNext == LookupPropertyValue \/ LookupMapFromEntries

----------------------------------------------------------------------------
(* The merge parser of udparser.py: DataParser.  Paths, arguments and     *)
(* lines are strs, sequences of code points.                              *)

\* BitSet.get(i)
BitSet_get(bits, i) == i \in bits
\* BitSet.set(i)
BitSet_set(bits, i) == bits \cup {i}

\* self.fileLines = {}
EmptyLines == [fileName \in {} |-> <<>>]

\* DataParser.__init__
DataParser_init ==
    [parseOptions |-> TRUE, actions |-> <<>>, files |-> <<>>,
     flags |-> <<>>, superstring |-> <<>>, matchedFiles |-> <<>>,
     blockBits |-> BitSet, charBits |-> BitSet,
     blockLines |-> <<>>, charLines |-> <<>>, fileLines |-> EmptyLines]

\* x in l, for a list l
inList(x, l) == \E i \in 1..Len(l) : l[i] = x

\* t in s, for strs
isSubstring(t, s) ==
    \E i \in 0..(Len(s) - Len(t)) : SubSeq(s, i + 1, i + Len(t)) = t

\* c in s, for a character c
hasChar(s, c) == \E i \in 1..Len(s) : s[i] = c

\* an action of parseArgs: the method the lambda calls and its argument
Action(name, arg) == [name |-> name, arg |-> arg]

\* how many arguments one turn of the loop of parseArgs pops
argsPopped(parseOptions, args) ==
    IF parseOptions /\ Head(args)[1] = 45 /\ Len(args) > 1
       /\ Head(args) \in {<<45, 112>>, <<45, 111>>, <<45, 102>>, <<45, 115>>}
    THEN 2 ELSE 1

\* one turn of the loop of parseArgs, on args[0]
parseArg(p, args) ==
    IF p.parseOptions /\ Head(args)[1] = 45
    THEN IF Head(args) = <<45, 45>> THEN [p EXCEPT !.parseOptions = FALSE]
         ELSE IF Head(args) \in {<<45, 104>>, <<45, 104, 101, 108, 112>>,
               <<45, 45, 104, 101, 108, 112>>}
         THEN [p EXCEPT !.actions = Append(@, Action("printHelp", <<>>))]
         ELSE IF Head(args) = <<45, 98>>
         THEN [p EXCEPT !.actions = Append(@, Action("printBlocks", <<>>))]
         ELSE IF Head(args) = <<45, 117>>
         THEN [p EXCEPT
                  !.actions = Append(@, Action("printUnicodeData", <<>>))]
         ELSE IF Head(args) = <<45, 112>> /\ Len(args) > 1
         THEN [p EXCEPT !.actions = Append(@, Action("printFile", args[2]))]
         ELSE IF Head(args) = <<45, 111>> /\ Len(args) > 1
         THEN [p EXCEPT !.actions = Append(@, Action("writePath", args[2]))]
         ELSE IF Head(args) = <<45, 108>>
         THEN [p EXCEPT
                  !.actions = Append(@, Action("printMatchedFiles", <<>>))]
         ELSE IF Head(args) = <<45, 120>>
         THEN [p EXCEPT
                  !.actions = Append(@, Action("printMatchedFlags", <<>>))]
         ELSE IF Head(args) = <<45, 109>>
         THEN [p EXCEPT !.actions = Append(@, Action("printMatches", <<>>))]
         ELSE IF Head(args) = <<45, 102>> /\ Len(args) > 1
         THEN [p EXCEPT !.files = Append(@, args[2])]
         ELSE IF Head(args) = <<45, 115>> /\ Len(args) > 1
         THEN [p EXCEPT !.superstring = @ \o args[2]]
         ELSE [p EXCEPT !.flags = Append(@, Head(args))]
    ELSE IF hasChar(Head(args), 47) \/ hasChar(Head(args), 46)
    THEN [p EXCEPT !.files = Append(@, Head(args))]
    ELSE IF hasChar(Head(args), 45)
    THEN [p EXCEPT !.flags = Append(@, Head(args))]
    ELSE [p EXCEPT !.superstring = @ \o Head(args)]

RECURSIVE DataParser_parseArgs(_, _)
\* DataParser.parseArgs, for arguments that are not empty strs
DataParser_parseArgs(p, args) ==
    IF args = <<>> THEN p
    ELSE DataParser_parseArgs(
             parseArg(p, args),
             SubSeq(args, argsPopped(p.parseOptions, args) + 1, Len(args)))

\* re.split(r'[.]+|;', s): a separator is a run of dots or one semicolon
blockSepStarts(s) == runStarts(s, {46}) \cup {i \in 1..Len(s) : s[i] = 59}
blockSepEnds(s) == runEnds(s, {46}) \cup {i \in 1..Len(s) : s[i] = 59}
splitBlockLine(s) ==
    [k \in 1..(Cardinality(blockSepStarts(s)) + 1) |->
        SubSeq(s, nthOf(blockSepEnds(s), k - 1, 0) + 1,
                  nthOf(blockSepStarts(s), k, Len(s) + 1) - 1)]

\* int(s, 16), which skips the white space around the digits
intOk(s) == intHexOk(strip(s))
int16(s) == intHex(strip(s))

\* re.sub(r'^(-*)', r'\1no-', flag)
leadingDashes(s) ==
    Cardinality({i \in 1..Len(s) : \A j \in 1..i : s[j] = 45})
noFlag(s) ==
    SubSeq(s, 1, leadingDashes(s)) \o <<110, 111, 45>>
    \o SubSeq(s, leadingDashes(s) + 1, Len(s))

\* fileName = None
NoFileName == <<>>

NoError == [kind |-> "", line |-> <<>>]
Error(kind, line) == [kind |-> kind, line |-> line]

\* the locals of processFile before the first line
processFileStart(p) ==
    [err |-> NoError, p |-> p, fileName |-> NoFileName,
     matchesFlag |-> FALSE, matchesNoFlag |-> FALSE,
     matchesSubstring |-> FALSE, fileFlags |-> <<>>, fileSubstrings |-> <<>>]

\* the condition with a substring match that a --no-<flag> does not undo
includesBySubstring(r, matchesFile) ==
    matchesFile \/ (r.matchesFlag /\ ~r.matchesNoFlag) \/ r.matchesSubstring

\* the condition under which processFile takes a body line, and under
\* which it lists the file as matched
includes(r, matchesFile) ==
    matchesFile \/ ((r.matchesFlag \/ r.matchesSubstring) /\ ~r.matchesNoFlag)

\* a line that starts with '@'
controlLine(r, line, fields) ==
    IF fields[1] = <<64, 102, 108, 97, 103>>
    THEN IF Len(fields) < 2 THEN [r EXCEPT !.err = Error("IndexError", line)]
         ELSE [r EXCEPT
                  !.fileFlags = Append(@, fields[2]),
                  !.matchesFlag = @ \/ inList(fields[2], r.p.flags),
                  !.matchesNoFlag = @ \/ inList(noFlag(fields[2]), r.p.flags)]
    ELSE IF fields[1] = <<64, 115, 117, 98, 115, 116, 114, 105, 110, 103>>
    THEN IF Len(fields) < 2 THEN [r EXCEPT !.err = Error("IndexError", line)]
         ELSE [r EXCEPT
                  !.fileSubstrings = Append(@, fields[2]),
                  !.matchesSubstring =
                      @ \/ isSubstring(fields[2], r.p.superstring)]
    ELSE IF fields[1] = <<64, 102, 105, 108, 101>>
    THEN IF Len(fields) < 2 THEN [r EXCEPT !.err = Error("IndexError", line)]
         ELSE [r EXCEPT !.fileName = fields[2]]
    ELSE r

\* a body line of Blocks.txt taken without asking the bitset
blocksBodyLineUnchecked(r, line, fields) ==
    IF ~intOk(fields[1]) THEN [r EXCEPT !.err = Error("ValueError", line)]
    ELSE IF Len(fields) < 2 THEN [r EXCEPT !.err = Error("IndexError", line)]
    ELSE IF ~intOk(fields[2])
    THEN [r EXCEPT !.err = Error("ValueError", line)]
    ELSE [r EXCEPT
             !.p.blockBits =
                 BitSet_setAll(@, int16(fields[1]), int16(fields[2])),
             !.p.blockLines = Append(@, line)]

\* a body line of Blocks.txt
blocksBodyLine(r, line, fields) ==
    IF ~intOk(fields[1]) THEN [r EXCEPT !.err = Error("ValueError", line)]
    ELSE IF Len(fields) < 2 THEN [r EXCEPT !.err = Error("IndexError", line)]
    ELSE IF ~intOk(fields[2])
    THEN [r EXCEPT !.err = Error("ValueError", line)]
    ELSE IF BitSet_getAny(r.p.blockBits, int16(fields[1]), int16(fields[2]))
    THEN [r EXCEPT !.err = Error("overlapping block data", line)]
    ELSE [r EXCEPT
             !.p.blockBits =
                 BitSet_setAll(@, int16(fields[1]), int16(fields[2])),
             !.p.blockLines = Append(@, line)]

\* a body line of UnicodeData.txt
charBodyLine(r, line, fields) ==
    IF ~intOk(fields[1]) THEN [r EXCEPT !.err = Error("ValueError", line)]
    ELSE IF BitSet_get(r.p.charBits, int16(fields[1]))
    THEN [r EXCEPT !.err = Error("overlapping character data", line)]
    ELSE [r EXCEPT
             !.p.charBits = BitSet_set(@, int16(fields[1])),
             !.p.charLines = Append(@, line)]

\* a body line of another file
otherBodyLine(r, line) ==
    IF r.fileName \in DOMAIN r.p.fileLines
    THEN [r EXCEPT !.p.fileLines[r.fileName] = Append(@, line)]
    ELSE [r EXCEPT
             !.p.fileLines =
                 [n \in DOMAIN @ \cup {r.fileName} |->
                     IF n = r.fileName THEN <<line>> ELSE @[n]]]

\* a body line that is taken
bodyLine(r, line) ==
    IF r.fileName = <<66, 108, 111, 99, 107, 115, 46, 116, 120, 116>>
    THEN blocksBodyLine(r, line, splitBlockLine(line))
    ELSE IF r.fileName = <<85, 110, 105, 99, 111, 100, 101, 68, 97, 116, 97,
          46, 116, 120, 116>>
    THEN charBodyLine(r, line, split(line, 59))
    ELSE IF r.fileName # NoFileName THEN otherBodyLine(r, line)
    ELSE r

\* one turn of the loop of processFile, on the stripped line
processLine(r, line, matchesFile) ==
    IF r.err # NoError THEN r
    ELSE IF line = <<>> THEN [r EXCEPT !.err = Error("IndexError", line)]
    ELSE IF line[1] = 64 THEN controlLine(r, line, splitRuns(line, Spaces))
    ELSE IF includes(r, matchesFile) THEN bodyLine(r, line)
    ELSE r

RECURSIVE processLines(_, _, _, _)
\* the loop of processFile over the first n lines
processLines(p, lines, n, matchesFile) ==
    IF n = 0 THEN processFileStart(p)
    ELSE CHOOSE x \in {processLine(r, strip(lines[n]), matchesFile) :
                          r \in {processLines(p, lines, n - 1, matchesFile)}} :
             TRUE

\* the entry of matchedFiles of a file
matchedFile(file, r) ==
    [flags |-> r.fileFlags, file |-> file, substrings |-> r.fileSubstrings]

\* what processFile leaves: the parser, and the exception that ended it
processFileEnd(r, file, matchesFile) ==
    IF r.err # NoError THEN [err |-> r.err, p |-> r.p]
    ELSE IF includes(r, matchesFile)
    THEN [err |-> NoError,
          p |-> [r.p EXCEPT !.matchedFiles = Append(@, matchedFile(file, r))]]
    ELSE [err |-> NoError, p |-> r.p]

\* DataParser.processFile(file, matchesFile), the file holding the lines
DataParser_processFile(p, file, lines, matchesFile) ==
    CHOOSE x \in {processFileEnd(r, file, matchesFile) :
                     r \in {processLines(p, lines, Len(lines), matchesFile)}} :
        TRUE

----------------------------------------------------------------------------
(* The source files the merge parser reads, and the arguments it is given. *)

\* the directory of the source files, ../unicodedata
datadir == <<100>>

sp_txt ==
    << <<64, 102, 108, 97, 103, 32, 45, 45, 115, 112>>,
       <<64, 102, 108, 97, 103, 32, 45, 45, 116, 112>>,
       <<64, 115, 117, 98, 115, 116, 114, 105, 110, 103, 32, 112, 111, 110,
             97>>,
       <<64, 102, 105, 108, 101, 32, 66, 108, 111, 99, 107, 115, 46, 116,
             120, 116>>,
       <<70, 49, 57, 48, 48, 46, 46, 70, 49, 57, 48, 49, 59, 32, 83, 80>>,
       <<64, 102, 105, 108, 101, 32, 85, 110, 105, 99, 111, 100, 101, 68, 97,
             116, 97, 46, 116, 120, 116>>,
       <<70, 49, 57, 48, 48, 59, 65, 59, 76, 111>>,
       <<64, 102, 105, 108, 101, 32, 69, 120, 116, 114, 97, 46, 116, 120,
             116>>,
       <<70, 49, 57, 48, 48, 59, 32, 120>> >>

ss_txt ==
    << <<64, 102, 108, 97, 103, 32, 45, 45, 115, 115>>,
       <<64, 115, 117, 98, 115, 116, 114, 105, 110, 103, 32, 112, 97, 110,
             97>>,
       <<64, 102, 105, 108, 101, 32, 66, 108, 111, 99, 107, 115, 46, 116,
             120, 116>>,
       <<70, 49, 57, 48, 49, 46, 46, 70, 49, 57, 48, 50, 59, 32, 83, 83>>,
       <<64, 102, 105, 108, 101, 32, 85, 110, 105, 99, 111, 100, 101, 68, 97,
             116, 97, 46, 116, 120, 116>>,
       <<70, 49, 57, 48, 50, 59, 66, 59, 76, 111>> >>

kr_txt ==
    << <<64, 102, 108, 97, 103, 32, 45, 45, 107, 114>>,
       <<64, 102, 105, 108, 101, 32, 85, 110, 105, 99, 111, 100, 101, 68, 97,
             116, 97, 46, 116, 120, 116>>,
       <<70, 49, 57, 48, 48, 59, 67, 59, 76, 111>>,
       <<64, 102, 105, 108, 101, 32, 66, 108, 111, 99, 107, 115, 46, 116,
             120, 116>>,
       <<69, 48, 48, 48, 46, 46, 69, 48, 48, 49, 59, 32, 75, 82>> >>

\* a file whose flag follows a body line
late_txt ==
    << <<64, 102, 105, 108, 101, 32, 66, 108, 111, 99, 107, 115, 46, 116,
          120, 116>>,
       <<69, 48, 49, 48, 46, 46, 69, 48, 49, 49, 59, 32, 69, 65, 82, 76, 89>>,
       <<64, 102, 108, 97, 103, 32, 45, 45, 108, 97, 116, 101>>,
       <<69, 48, 49, 50, 46, 46, 69, 48, 49, 51, 59, 32, 76, 65, 84, 69>> >>

\* a file outside the directory
my_txt ==
    << <<64, 102, 108, 97, 103, 32, 45, 45, 109, 121>>,
       <<64, 102, 105, 108, 101, 32, 66, 108, 111, 99, 107, 115, 46, 116,
             120, 116>>,
       <<32, 69, 48, 48, 49, 46, 46, 69, 48, 48, 50, 59, 32, 77, 89>>,
       <<64, 102, 105, 108, 101, 32, 69, 120, 116, 114, 97, 46, 116, 120,
             116>>,
       <<69, 48, 48, 49, 59, 32, 121>> >>

\* os.listdir(datadir), in some order
SourceNames == {<<115, 112, 46, 116, 120, 116>>, <<115, 115, 46, 116, 120,
      116>>, <<107, 114, 46, 116, 120, 116>>, <<108, 97, 116, 101, 46, 116,
            120, 116>>}

\* whether open(file) finds the file
sourceExists(file) ==
    \/ file = <<109, 121, 46, 116, 120, 116>>
    \/ \E name \in SourceNames : file = pathJoin(datadir, name)

\* the lines of the file
sourceLines(file) ==
    IF file = <<109, 121, 46, 116, 120, 116>> THEN my_txt
    ELSE IF file = pathJoin(datadir, <<115, 112, 46, 116, 120,
          116>>) THEN sp_txt
    ELSE IF file = pathJoin(datadir, <<115, 115, 46, 116, 120,
          116>>) THEN ss_txt
    ELSE IF file = pathJoin(datadir, <<107, 114, 46, 116, 120,
          116>>) THEN kr_txt
    ELSE late_txt

\* sys.argv[1:]
ArgLists ==
    { << <<45, 45, 115, 112>> >>,
      << <<45, 45, 115, 112>>, <<45, 45, 110, 111, 45, 115, 112>> >>,
      << <<112, 111, 110, 97>> >>,
      << <<112, 111, 110, 97>>, <<45, 45, 110, 111, 45, 115, 112>> >>,
      << <<45, 45, 115, 112>>, <<45, 45, 110, 111, 45, 116, 112>> >>,
      << <<45, 45, 115, 112>>, <<45, 45, 115, 115>> >>,
      << <<45, 45, 115, 112>>, <<45, 45, 107, 114>> >>,
      << <<45, 115>>, <<112, 97, 110, 97>>, <<45, 45, 107, 114>> >>,
      << <<109, 121, 46, 116, 120, 116>>, <<45, 45, 107, 114>> >>,
      << <<100, 47, 115, 112, 46, 116, 120, 116>>, <<45, 45, 115, 112>> >>,
      << <<45, 102>>, <<100, 47, 115, 115, 46, 116, 120, 116>>, <<45, 112>>,
            <<69, 120, 116, 114, 97, 46, 116, 120, 116>> >>,
      << <<45, 45, 108, 97, 116, 101>> >>,
      << <<45, 98>>, <<45, 45, 115, 112>>, <<45, 108>> >>,
      << <<115, 105, 116, 101, 108, 101, 110>>, <<112, 111, 110, 97>>, <<45,
            111>>, <<111, 117, 116>>, <<45, 120>> >>,
      << <<45, 45>>, <<45, 120, 46, 121>> >>,
      << <<45, 45, 107, 114>>, <<45, 45, 115, 115>>, <<45, 117>>, <<45,
            109>>, <<45, 104>> >> }

\* a call of processFile
Call(file, matchesFile) == [matchesFile |-> matchesFile, file |-> file]

\* p = DataParser()
MergeInit ==
    /\ dparser = DataParser_init
    /\ mcalls = <<>>
    /\ merr = NoError
    /\ mpc = "new"

\* p.parseArgs(args)
ParseArgs(args) ==
    /\ mpc = "new"
    /\ dparser' = DataParser_parseArgs(dparser, args)
    /\ mpc' = "files"
    /\ UNCHANGED <<mcalls, merr, lookupVars, textVars, codecVars, fontVars, headerVars, hackVars, copyVars, againVars, convVars, mapVars>>

\* processFile(file, matchesFile) as processFiles calls it
ProcessFile(file, matchesFile) ==
    /\ mcalls' = Append(mcalls, Call(file, matchesFile))
    /\ IF ~sourceExists(file)
       THEN /\ merr' = Error("IOError", file)
            /\ UNCHANGED dparser
       ELSE \E x \in {DataParser_processFile(dparser, file, sourceLines(file),
                                             matchesFile)} :
               /\ dparser' = x.p
               /\ merr' = x.err
    /\ UNCHANGED <<mpc, lookupVars, textVars, codecVars, fontVars, headerVars, hackVars, copyVars, againVars, convVars, mapVars>>

\* processFiles: the next of self.files
ProcessNamedFile ==
    /\ mpc = "files"
    /\ merr = NoError
    /\ Len(mcalls) < Len(dparser.files)
    /\ ProcessFile(dparser.files[Len(mcalls) + 1], TRUE)

\* processFiles: the next file of os.listdir(datadir)
ProcessListedFile(name) ==
    /\ mpc = "files"
    /\ merr = NoError
    /\ Len(mcalls) >= Len(dparser.files)
    /\ ~inList(Call(pathJoin(datadir, name), FALSE), mcalls)
    /\ ProcessFile(pathJoin(datadir, name), FALSE)

MergeNext ==
    \/ \E args \in ArgLists : ParseArgs(args)
    \/ ProcessNamedFile
    \/ \E name \in SourceNames : ProcessListedFile(name)

----------------------------------------------------------------------------
(* A table compiled more than once, as the compile command does when it    *)
(* writes one table to several output fonts.                               *)

\* the most calls of compile() after the first
MaxRepeats == 2

AgainInit ==
    /\ agBlobs = <<>>
    /\ agErrs = <<>>

\* table.compile() once more, on the table the last call left
CompileAgain ==
    /\ pc \in {"compiled", "failed"}
    /\ Len(agBlobs) < MaxRepeats
    /\ \E r \in {PuaaTable_compile(table)} :
           /\ table' = r.subtables
           /\ agBlobs' = Append(agBlobs, r.data)
           /\ agErrs' = Append(agErrs, r.err)
    /\ UNCHANGED <<tableBefore, data, fresh, comp, err, pc, hackVars, copyVars, convVars, mapVars, lookupVars, mergeVars, textVars, fontVars, headerVars>>

AgainNext ==
    \/ \E propertyName \in PropertyNames : CreateSubtable(propertyName)
    \/ \E propertyName \in PropertyNames, i \in 1..Len(EntryUniverse) :
          AppendEntry(propertyName, EntryUniverse[i])
    \/ Compile
    \/ CompileAgain

----------------------------------------------------------------------------
(* The conversions between signed and unsigned 32-bit integers.            *)

\* the integers given to the conversions: the ends of the two ranges, their
\* neighbours on either side, and numbers well inside and well outside
ConvHighs == {-65536, -32769, -32768, -1, 0, 1, 32767, 32768, 65535, 65536}
ConvLows == {0, 1, 32768, 65535}
ConvInts == {U32(h, l) : h \in ConvHighs, l \in ConvLows}

\* the code point of the Decimal entry compiled
ConvCodePoint == 19968

ConvInit ==
    /\ cvCall = ""
    /\ cvIn = U32(0, 0)
    /\ cvOut = <<>>
    /\ cvBack = <<>>
    /\ cvErr = ""
    /\ cvPc = "start"

\* u = signedToUnsigned32(v)
SignedToUnsigned32(v) ==
    /\ cvPc = "start"
    /\ cvCall' = "signedToUnsigned32"
    /\ cvIn' = v
    /\ IF signedToUnsigned32Ok(v)
       THEN cvOut' = signedToUnsigned32(v) /\ cvErr' = "" /\ cvPc' = "converted"
       ELSE cvOut' = <<>> /\ cvErr' = "OverflowError" /\ cvPc' = "failed"
    /\ UNCHANGED <<cvBack, hackVars, copyVars, againVars, mapVars, lookupVars, mergeVars, textVars, codecVars, fontVars, headerVars>>

\* v = unsignedToSigned32(u)
UnsignedToSigned32(u) ==
    /\ cvPc = "start"
    /\ cvCall' = "unsignedToSigned32"
    /\ cvIn' = u
    /\ IF unsignedToSigned32Ok(u)
       THEN cvOut' = unsignedToSigned32(u) /\ cvErr' = "" /\ cvPc' = "converted"
       ELSE cvOut' = <<>> /\ cvErr' = "OverflowError" /\ cvPc' = "failed"
    /\ UNCHANGED <<cvBack, hackVars, copyVars, againVars, mapVars, lookupVars, mergeVars, textVars, codecVars, fontVars, headerVars>>

\* the opposite conversion, called with the result of the first
ConvertBack ==
    /\ cvPc = "converted"
    /\ cvCall \in {"signedToUnsigned32", "unsignedToSigned32"}
    /\ LET ok == IF cvCall = "signedToUnsigned32"
                 THEN unsignedToSigned32Ok(cvOut) ELSE signedToUnsigned32Ok(cvOut)
           back == IF cvCall = "signedToUnsigned32"
                   THEN unsignedToSigned32(cvOut) ELSE signedToUnsigned32(cvOut)
       IN  IF ok
           THEN cvBack' = back /\ cvErr' = "" /\ cvPc' = "back"
           ELSE cvBack' = <<>> /\ cvErr' = "OverflowError" /\ cvPc' = "failed"
    /\ UNCHANGED <<cvCall, cvIn, cvOut, hackVars, copyVars, againVars, mapVars, lookupVars, mergeVars, textVars, codecVars, fontVars, headerVars>>

\* puaa.subtable('Name', True).entries.append(DecimalEntry(cp, cp, v));
\* blob = puaa.compile()
CompileDecimal(v) ==
    /\ cvPc = "start"
    /\ cvCall' = "DecimalEntry"
    /\ cvIn' = v
    /\ \E r \in {PuaaTable_compile(<<[propertyName |-> sName,
            entries |-> <<DecimalEntry(ConvCodePoint, ConvCodePoint,
                  v)>>]>>)} :
           /\ cvOut' = r.data
           /\ cvErr' = r.err
           /\ cvPc' = IF r.err = "" THEN "converted" ELSE "failed"
    /\ UNCHANGED <<cvBack, hackVars, copyVars, againVars, mapVars, lookupVars, mergeVars, textVars, codecVars, fontVars, headerVars>>

\* fresh = PuaaTable(); fresh.decompile(blob)
DecompileDecimal ==
    /\ cvPc = "converted"
    /\ cvCall = "DecimalEntry"
    /\ \E r \in {PuaaTable_decompile(<<>>, cvOut)} :
           /\ cvBack' = r.subtables
           /\ cvErr' = r.err
           /\ cvPc' = IF r.err = "" THEN "back" ELSE "failed"
    /\ UNCHANGED <<cvCall, cvIn, cvOut, hackVars, copyVars, againVars, mapVars, lookupVars, mergeVars, textVars, codecVars, fontVars, headerVars>>

ConvNext ==
    \/ \E v \in ConvInts : SignedToUnsigned32(v)
    \/ \E u \in ConvInts : UnsignedToSigned32(u)
    \/ ConvertBack
    \/ \E v \in ConvInts : CompileDecimal(v)
    \/ DecompileDecimal

----------------------------------------------------------------------------
(* The copy command: readPUAA on the file of the properties, writePUAA on  *)
(* the fonts.                                                              *)

\* the place in the directory of the first PUAA record, 0 when none
firstPUAA(dir) ==
    IF \A i \in 1..Len(dir) : dir[i].tag # PUAA THEN 0
    ELSE CHOOSE i \in 1..Len(dir) :
             dir[i].tag = PUAA /\ \A j \in 1..(i - 1) : dir[j].tag # PUAA

\* what readPUAA returns once table.decompile(data) has returned r
readTable(r) ==
    [err |-> r.err, puaa |-> [subtables |-> r.subtables, given |-> TRUE]]

\* readPUAA(path), for the bytes f of the file: the table decompiled from
\* the first PUAA record of the directory, or None when there is none
readPUAA(f) ==
    IF firstPUAA(ttfDirectory(f)) = 0 THEN [err |-> "", puaa |-> NoTable]
    ELSE readTable(PuaaTable_decompile(<<>>,
             ttfPayload(f, ttfDirectory(f)[firstPUAA(ttfDirectory(f))])))

\* the names of the files
CopyNames == {"a.ttf", "b.ttf", "puaa.out"}

\* the PUAA payloads of the fonts: Name is "A" at U+0001, and Name is
\* "ABCDE" at U+0001 and U+0002
puaaDataA ==
    PuaaTable_compile(appendEntry(<<>>, sName, SingleEntry(1, 1, sA))).data
puaaDataB ==
    PuaaTable_compile(appendEntry(<<>>, sName, SingleEntry(1, 2, sABCDE))).data

\* a table of a font, with the checksum of its payload
fontTable(tag, d) ==
    [data |-> d, tag |-> tag,
     checksum |-> rightChecksum([data |-> d, tag |-> tag])]

\* the fonts: one of no tables, one without a PUAA table, one of a PUAA
\* table alone, and two with other tables around different PUAA tables
CopyFonts ==
    { MakeFont(U32(1, 0), <<>>),
      MakeFont(U32(1, 0), <<fontTable(HEAD, headData),
                            fontTable(CMAP, <<97, 98, 99, 100, 101>>)>>),
      MakeFont(PUAA, <<fontTable(PUAA, puaaDataB)>>),
      MakeFont(U32(1, 0), <<fontTable(HEAD, headData),
                            fontTable(PUAA, puaaDataA)>>),
      MakeFont(U32(20308, 21583), <<fontTable(PUAA, puaaDataB),
                                    fontTable(CMAP, <<>>)>>) }

\* the lists of names an option is given with
CopyLists == {<<>>, <<"a.ttf">>, <<"b.ttf">>, <<"a.ttf", "b.ttf">>}

NoArgs == [dataFiles |-> <<>>, inputFiles |-> <<>>, outputFiles |-> <<>>]

\* None where a path is expected
NoPath == ""

CopyInit ==
    /\ cpFiles = [n \in CopyNames |-> None]
    /\ cpBefore = [n \in CopyNames |-> None]
    /\ cpArgs = NoArgs
    /\ cpErr = ""
    /\ cpPc = "files"

\* a font is put where the command will find it
PutFile(name, font) ==
    /\ cpPc = "files"
    /\ cpFiles[name] = None
    /\ cpFiles' = [cpFiles EXCEPT ![name] = font]
    /\ UNCHANGED <<cpBefore, cpArgs, cpErr, cpPc, hackVars, againVars, convVars, mapVars, lookupVars, mergeVars, textVars, codecVars, fontVars, headerVars>>

\* the files once writePUAA has made r of its input: outpath is written
\* when no exception ended it
written(files, outpath, r) ==
    IF r.err # "" THEN [err |-> r.err, files |-> files]
    ELSE [err |-> "", files |-> [files EXCEPT ![outpath] = r.data]]

\* writePUAA(inpath, puaa, outpath) on the files: inpath is a name or None
writeFile(files, inpath, puaa, outpath) ==
    IF inpath = NoPath THEN written(files, outpath, writePUAA(FALSE, <<>>,
          puaa))
    ELSE IF files[inpath] = None THEN [err |-> "IOError", files |-> files]
    ELSE written(files, outpath, writePUAA(TRUE, files[inpath], puaa))

\* ifExists(path)
ifExists(files, path) == IF files[path] = None THEN NoPath ELSE path

RECURSIVE writeInPlace(_, _, _)
\* the rest of the loop, after a writePUAA that left r
writeRest(r, puaa, names) ==
    IF r.err # "" THEN r ELSE writeInPlace(r.files, puaa, names)

\* for file in names: writePUAA(ifExists(file), puaa, file)
writeInPlace(files, puaa, names) ==
    IF names = <<>> THEN [err |-> "", files |-> files]
    ELSE writeRest(writeFile(files, ifExists(files, Head(names)), puaa,
                             Head(names)), puaa, Tail(names))

\* copy(args) from "puaa = readPUAA(dataFiles[0])" on
copyTable(files, args, read) ==
    IF read.err # "" THEN [err |-> read.err, files |-> files]
    ELSE IF args.inputFiles = <<>> /\ args.outputFiles = <<>>
    THEN writeInPlace(files, read.puaa, <<"puaa.out">>)
    ELSE IF args.inputFiles = <<>> \/ args.outputFiles = <<>>
    THEN writeInPlace(files, read.puaa, args.inputFiles \o args.outputFiles)
    ELSE IF Len(args.inputFiles) = 1 /\ Len(args.outputFiles) = 1
    THEN writeFile(files, args.inputFiles[1], read.puaa, args.outputFiles[1])
    ELSE IF Len(args.inputFiles) > 1
    THEN [err |-> "Too many input files.", files |-> files]
    ELSE [err |-> "Too many output files.", files |-> files]

\* copy(args) after its options are read: what it leaves of the files, and
\* the exception or the message it ends with
copy(files, args) ==
    IF args.dataFiles = <<>>
    THEN [err |-> "No data files specified.", files |-> files]
    ELSE IF Len(args.dataFiles) > 1
    THEN [err |-> "Too many data files.", files |-> files]
    ELSE IF files[args.dataFiles[1]] = None
    THEN [err |-> "IOError", files |-> files]
    ELSE copyTable(files, args, readPUAA(files[args.dataFiles[1]]))

\* pypuaa copy -d dataFiles -i inputFiles -o outputFiles
Copy(args) ==
    /\ cpPc = "files"
    /\ cpArgs' = args
    /\ cpBefore' = cpFiles
    /\ \E r \in {copy(cpFiles, args)} :
           /\ cpFiles' = r.files
           /\ cpErr' = r.err
           /\ cpPc' = IF r.err = "" THEN "copied" ELSE "failed"
    /\ UNCHANGED <<codecVars, hackVars, againVars, convVars, mapVars, lookupVars, mergeVars, textVars, fontVars, headerVars>>

CopyNext ==
    \/ \E name \in CopyNames, font \in CopyFonts : PutFile(name, font)
    \/ \E d, i, o \in CopyLists :
          Copy([dataFiles |-> d, inputFiles |-> i, outputFiles |-> o])

----------------------------------------------------------------------------
(* ttfhack: TtfFile and the getters and setters on it.                     *)

\* 'hhea'
HHEA == U32(26728, 25953)
SPACES == <<32, 32, 32, 32>>

\* a TtfTable
TtfTable(tag, checksum, offset, length, d) ==
    [data |-> d, offset |-> offset, tag |-> tag,
     checksum |-> checksum, length |-> length]

\* no TtfFile: self.ttf is None
NoTtf == [scaler |-> U32(0, 0), open |-> FALSE, tables |-> <<>>]

\* TtfFile(path), for the bytes f of the file
TtfFile_init(f) ==
    [scaler |-> ttfScaler(f), open |-> TRUE,
     tables |-> [i \in 1..ttfNumTables(f) |->
         TtfTable(ttfDirectory(f)[i].tag, ttfDirectory(f)[i].checksum,
                  ttfDirectory(f)[i].offset, ttfDirectory(f)[i].length,
                  ttfPayload(f, ttfDirectory(f)[i]))]]

\* the place in ttf.tables of the first table of the tag, 0 when none
tableIndex(tables, tag) ==
    IF \A i \in 1..Len(tables) : tables[i].tag # tag THEN 0
    ELSE CHOOSE i \in 1..Len(tables) :
             tables[i].tag = tag /\ \A j \in 1..(i - 1) : tables[j].tag # tag

\* None for an offset or a length
NoArg == -1

\* what setData makes of table.data, for data already encoded
setBytes(old, d, offset, length) ==
    IF offset = NoArg /\ length = NoArg THEN d
    ELSE IF offset = NoArg THEN d \o Slice(old, length, Len(old))
    ELSE IF length = NoArg THEN Slice(old, 0, offset) \o d
    ELSE Slice(old, 0, offset) \o d \o Slice(old, offset + length, Len(old))

\* ttf.setData(tag, data, offset, length) for a table that is there
TtfFile_setData(ttf, tag, d, offset, length) ==
    [ttf EXCEPT !.tables =
        [i \in 1..Len(ttf.tables) |->
            IF i = tableIndex(ttf.tables, tag)
            THEN TtfTable(ttf.tables[i].tag, ttf.tables[i].checksum,
                          ttf.tables[i].offset, ttf.tables[i].length,
                          setBytes(ttf.tables[i].data, d, offset, length))
            ELSE ttf.tables[i]]]

\* ttf.getData(tag, offset, length) for a table that is there
TtfFile_getData(ttf, tag, offset, length) ==
    Slice(Slice(ttf.tables[tableIndex(ttf.tables, tag)].data, offset,
                Len(ttf.tables[tableIndex(ttf.tables, tag)].data)), 0, length)

\* the body of the "Calculate offsets" loop for one table at currentLoc
placeTable(t, currentLoc, d) ==
    TtfTable(t.tag, chksum(d), IntOf(currentLoc), IntOf(Len(d)), d)

RECURSIVE placeTables(_, _)
\* the "Calculate offsets" loop of TtfFile.write over the tables left
placeTables(tables, currentLoc) ==
    IF tables = <<>> THEN <<>>
    ELSE <<CHOOSE t \in {placeTable(Head(tables), currentLoc, d) :
               d \in {IF Head(tables).tag = HEAD
                      THEN clearChecksum(Head(tables).data)
                      ELSE Head(tables).data}} : TRUE>>
         \o placeTables(Tail(tables),
                padded(currentLoc +
                    IF Head(tables).tag = HEAD
                    THEN Len(clearChecksum(Head(tables).data))
                    ELSE Len(Head(tables).data)))

\* "Compile" of TtfFile.write: the header, the directory in tag order, the
\* payloads in offset order, and the whole-file checksum
ttfBytes(scaler, h, placed, byTag) ==
    CHOOSE b \in {updateChecksum(f, checksumLocOf(placed)) : f \in
        {ttfHeaderStruct_pack(scaler, h)
         \o Concat([i \in 1..Len(byTag) |->
                ttfTableStruct_pack(byTag[i].tag, byTag[i].checksum,
                                    byTag[i].offset, byTag[i].length)])
         \o Concat([i \in 1..Len(placed) |-> paddedData(placed[i].data)])}} :
        TRUE

\* ttf.write(path) once the offsets are calculated: the exception raised,
\* the bytes written and the TtfFile it leaves
writeTtf(ttf, h, placed) ==
    IF ~ttfHeaderStruct_packable(ttf.scaler, h)
    THEN [data |-> <<>>, err |-> "struct.error",
          ttf |-> [ttf EXCEPT !.tables = placed]]
    ELSE [data |-> CHOOSE b \in {ttfBytes(ttf.scaler, h, placed, byTag) :
                       byTag \in {sortByTag(placed)}} : TRUE,
          err |-> "",
          ttf |-> [ttf EXCEPT !.tables = sortByOffset(sortByTag(placed))]]

\* ttf.write(path)
TtfFile_write(ttf) ==
    CHOOSE r \in {writeTtf(ttf, TtfFile_headerValues(Len(ttf.tables)),
          placed) :
        placed \in {placeTables(sortByOffset(ttf.tables),
                                12 + Len(ttf.tables) * 16)}} : TRUE

----------------------------------------------------------------------------
(* TtfFile, called as a library.                                           *)

\* the most setData calls between the reading and the writing of a font
MaxSetData == 2

\* 'cmap' payload of the fonts
cmapData == <<97, 98, 99, 100, 101, 102, 103, 104>>

\* head payloads of 0 to 13 bytes
headBytes(n) == [i \in 1..n |-> 16 * i + 1]

\* the fonts read: cmap alone, and a head table of 0 to 13 bytes before or
\* after cmap
TtfFonts ==
    { MakeFont(U32(1, 0), <<fontTable(CMAP, cmapData)>>) }
    \cup { MakeFont(U32(1, 0), <<fontTable(HEAD, headBytes(n)),
                                 fontTable(CMAP, cmapData)>>) : n \in 0..13 }
    \cup { MakeFont(U32(1, 0), <<fontTable(CMAP, cmapData),
                                 fontTable(HEAD, headBytes(n))>>) : n \in {4,
                                       12} }

\* what setData is called with
SetDataTags == {HEAD, CMAP, HHEA}
SetDataBytes == {<<>>, <<0, 1>>, <<1, 2, 3, 4, 5, 6, 7, 8, 9, 10, 11, 12, 13>>}
SetDataOffsets == {NoArg, 0, 6}
SetDataLengths == {NoArg, 2, 20}

\* path of the font written
OutPath == <<111, 117, 116, 46, 116, 116, 102>>
InPath == <<105, 110, 46, 116, 116, 102>>
ArgsPath == <<97, 114, 103, 115, 46, 116, 120, 116>>
HackPaths == {InPath, OutPath, ArgsPath}

HackInit ==
    /\ hkFiles = [p \in HackPaths |-> None]
    /\ hkTtf = NoTtf
    /\ hkBefore = NoTtf
    /\ hkChanged = FALSE
    /\ hkError = None
    /\ hkExc = ""
    /\ hkLog = <<>>
    /\ hkArgs = <<>>
    /\ hkPc = "start"

\* ttf = TtfFile(path), path being a file of the bytes f
TtfOpen(f) ==
    /\ hkPc = "start"
    /\ hkFiles' = [hkFiles EXCEPT ![InPath] = f]
    /\ hkTtf' = TtfFile_init(f)
    /\ hkPc' = "open"
    /\ UNCHANGED <<hkBefore, hkChanged, hkError, hkExc, hkLog, hkArgs, copyVars, againVars, convVars, mapVars, lookupVars, mergeVars, textVars, codecVars, fontVars, headerVars>>

\* ttf.setData(tag, data, offset, length)
TtfSetData(tag, d, offset, length) ==
    /\ hkPc = "open"
    /\ Len(hkLog) < MaxSetData
    /\ IF tableIndex(hkTtf.tables, tag) = 0
       THEN hkLog' = Append(hkLog, "False") /\ UNCHANGED <<hkTtf, copyVars, againVars, convVars, mapVars, lookupVars, mergeVars, textVars, codecVars, fontVars, headerVars>>
       ELSE /\ hkLog' = Append(hkLog, "True")
            /\ hkTtf' = TtfFile_setData(hkTtf, tag, d, offset, length)
    /\ UNCHANGED <<hkFiles, hkBefore, hkChanged, hkError, hkExc, hkArgs, hkPc, copyVars, againVars, convVars, mapVars, lookupVars, mergeVars, textVars, codecVars, fontVars, headerVars>>

\* ttf.write(path)
TtfWrite ==
    /\ hkPc = "open"
    /\ hkBefore' = hkTtf
    /\ \E r \in {TtfFile_write(hkTtf)} :
           /\ hkTtf' = r.ttf
           /\ hkExc' = r.err
           /\ hkFiles' = IF r.err = "" THEN [hkFiles EXCEPT ![OutPath] = r.data]
                         ELSE hkFiles
           /\ hkPc' = IF r.err = "" THEN "written" ELSE "failed"
    /\ UNCHANGED <<hkChanged, hkError, hkLog, hkArgs, copyVars, againVars, convVars, mapVars, lookupVars, mergeVars, textVars, codecVars, fontVars, headerVars>>

TtfNext ==
    \/ \E f \in TtfFonts : TtfOpen(f)
    \/ \E tag \in SetDataTags, d \in SetDataBytes, offset \in SetDataOffsets,
          length \in SetDataLengths : TtfSetData(tag, d, offset, length)
    \/ TtfWrite

----------------------------------------------------------------------------
(* ttfhack: the CommandProcessor.                                          *)

\* cmd.error is None, which is None, or False, or a message
False == <<-2>>

\* the fields ttfhack knows: the keys of getters and of setters, with the
\* table, the offset and the length they are read and written at, and how
\* they are decoded and encoded
HackField(name, tag, offset, length, kind) ==
    [offset |-> offset, tag |-> tag, length |-> length, name |-> name,
     kind |-> kind]

HackFields ==
    << HackField(<<118, 101, 110, 100, 111, 114, 73, 100>>, OS_2, 58, 4,
          "FCC"),
       HackField(<<116, 121, 112, 111, 65, 115, 99, 101, 110, 116>>, OS_2,
             68, 2, "Short"),
       HackField(<<116, 121, 112, 111, 68, 101, 115, 99, 101, 110, 116>>,
             OS_2, 70, 2, "Short"),
       HackField(<<116, 121, 112, 111, 76, 105, 110, 101, 71, 97, 112>>,
             OS_2, 72, 2, "Short"),
       HackField(<<119, 105, 110, 65, 115, 99, 101, 110, 116>>, OS_2, 74, 2,
             "UShort"),
       HackField(<<119, 105, 110, 68, 101, 115, 99, 101, 110, 116>>, OS_2,
             76, 2, "UShort"),
       HackField(<<120, 72, 101, 105, 103, 104, 116>>, OS_2, 86, 2, "Short"),
       HackField(<<99, 97, 112, 72, 101, 105, 103, 104, 116>>, OS_2, 88, 2,
             "Short"),
       HackField(<<117, 110, 105, 116, 115, 80, 101, 114, 69, 109>>, HEAD,
             18, 2, "UShort"),
       HackField(<<120, 77, 105, 110>>, HEAD, 36, 2, "Short"),
       HackField(<<121, 77, 105, 110>>, HEAD, 38, 2, "Short"),
       HackField(<<120, 77, 97, 120>>, HEAD, 40, 2, "Short"),
       HackField(<<121, 77, 97, 120>>, HEAD, 42, 2, "Short"),
       HackField(<<104, 104, 101, 97, 65, 115, 99, 101, 110, 116>>, HHEA, 4,
             2, "Short"),
       HackField(<<104, 104, 101, 97, 68, 101, 115, 99, 101, 110, 116>>,
             HHEA, 6, 2, "Short"),
       HackField(<<104, 104, 101, 97, 76, 105, 110, 101, 71, 97, 112>>, HHEA,
             8, 2, "Short") >>

\* the place of a name in HackFields, 0 when it is no key
fieldIndex(name) ==
    IF \A i \in 1..Len(HackFields) : HackFields[i].name # name THEN 0
    ELSE CHOOSE i \in 1..Len(HackFields) : HackFields[i].name = name

\* the exception the decoder of the kind raises for the bytes, "" for none
decodeError(kind, d) ==
    IF kind = "FCC"
    THEN IF \E i \in 1..Len(d) : d[i] > 127 THEN "UnicodeDecodeError" ELSE ""
    ELSE IF Len(d) # 2 THEN "struct.error" ELSE ""

\* the exception the encoder of the kind raises for the text, "" for none
encodeError(kind, s) ==
    IF kind = "FCC"
    THEN IF \E i \in 1..Len(s) : s[i] > 127 THEN "UnicodeEncodeError" ELSE ""
    ELSE IF ~intDecOk(strip(s)) THEN "ValueError"
    ELSE IF kind = "Short"
    THEN IF intDec(strip(s)) < -32768 \/ intDec(strip(s)) >= 32768
         THEN "OverflowError" ELSE ""
    ELSE IF intDec(strip(s)) < 0 \/ intDec(strip(s)) > 65535
         THEN "struct.error" ELSE ""

\* encodeFCC(s), encodeUShort(s), encodeShort(s)
encodeField(kind, s) ==
    IF kind = "FCC" THEN Slice(s \o SPACES, 0, 4)
    ELSE shortStruct_pack(intDec(strip(s)) % 65536)

\* a CommandProcessor with the files around it, the exception that ended
\* the program and what its calls have done
Cmd(ttf, changed, error, files, exc, log) ==
    [error |-> error, ttf |-> ttf, files |-> files, changed |-> changed,
     exc |-> exc, log |-> log]

withError(cmd, message) ==
    Cmd(cmd.ttf, cmd.changed, message, cmd.files, cmd.exc, cmd.log)
withExc(cmd, exc) ==
    Cmd(cmd.ttf, cmd.changed, cmd.error, cmd.files, exc, cmd.log)

\* print(getters[getter](self.ttf))
printField(cmd, fld) ==
    IF tableIndex(cmd.ttf.tables, fld.tag) = 0
    THEN Cmd(cmd.ttf, cmd.changed, cmd.error, cmd.files, cmd.exc,
             Append(cmd.log, "printed"))
    ELSE IF decodeError(fld.kind, TtfFile_getData(cmd.ttf, fld.tag,
                                      fld.offset, fld.length)) # ""
    THEN withExc(cmd, decodeError(fld.kind,
                     TtfFile_getData(cmd.ttf, fld.tag, fld.offset,
                           fld.length)))
    ELSE Cmd(cmd.ttf, cmd.changed, cmd.error, cmd.files, cmd.exc,
             Append(cmd.log, "printed"))

\* cmd.processGet(getter)
processGet(cmd, getter) ==
    IF getter = <<104, 101, 108, 112>> THEN withError(cmd, False)
    ELSE IF fieldIndex(getter) = 0
    THEN withError(cmd, <<85, 110, 107, 110, 111, 119, 110, 32, 99, 111, 109,
          109, 97, 110, 100, 58, 32>> \o getter)
    ELSE IF ~cmd.ttf.open
    THEN withError(cmd, <<78, 111, 32, 105, 110, 112, 117, 116, 32, 102, 105,
          108, 101, 32, 115, 112, 101, 99, 105, 102, 105, 101, 100, 32, 102,
                111, 114, 32>> \o getter)
    ELSE printField(cmd, HackFields[fieldIndex(getter)])

\* setters[setter](self.ttf, data), which encodes the text once setData has
\* found the table, and what processSet does with the result
setField(cmd, fld, setter, s) ==
    IF tableIndex(cmd.ttf.tables, fld.tag) = 0
    THEN withError(cmd, <<67, 111, 117, 108, 100, 32, 110, 111, 116, 32, 102,
          105, 110, 100, 32, 116, 97, 98, 108, 101, 32, 102, 111, 114,
                32>> \o setter \o <<61>> \o s)
    ELSE IF encodeError(fld.kind, s) # ""
    THEN withExc(cmd, encodeError(fld.kind, s))
    ELSE Cmd(TtfFile_setData(cmd.ttf, fld.tag, encodeField(fld.kind, s),
                             fld.offset, fld.length),
             TRUE, cmd.error, cmd.files, cmd.exc, Append(cmd.log, "set"))

\* self.ttf.write(data); self.changed = False, write having returned r
wroteFont(cmd, path, r) ==
    IF r.err # "" THEN Cmd(r.ttf, cmd.changed, cmd.error, cmd.files, r.err,
          cmd.log)
    ELSE Cmd(r.ttf, FALSE, cmd.error, [cmd.files EXCEPT ![path] = r.data],
             cmd.exc, Append(cmd.log, "written"))

\* the lines of a text file, each with the newline that ends it
fileLines(text) ==
    [k \in 1..Cardinality({i \in 1..Len(text) : text[i] = 10 \/ i = Len(text)}) |->
        SubSeq(text,
               nthOf({i \in 1..Len(text) : text[i] = 10 \/ i = Len(text)},
                     k - 1, Len(text)) + 1,
               nthOf({i \in 1..Len(text) : text[i] = 10 \/ i = Len(text)},
                     k, Len(text)))]

\* the place of the first "=" of an argument, 0 when it has none
equalsAt(arg) ==
    IF \A i \in 1..Len(arg) : arg[i] # 61 THEN 0
    ELSE CHOOSE i \in 1..Len(arg) :
             arg[i] = 61 /\ \A j \in 1..(i - 1) : arg[j] # 61

RECURSIVE processArgs(_, _)

\* cmd.processSet(setter, data)
processSet(cmd, setter, s) ==
    IF setter = <<115, 102>>
    THEN IF s \notin DOMAIN cmd.files \/ cmd.files[s] = None
         THEN withExc(cmd, "IOError")
         ELSE processArgs(cmd, fileLines(cmd.files[s]))
    ELSE IF setter = <<105, 102>>
    THEN IF cmd.changed
         THEN withError(cmd, <<78, 111, 32, 111, 117, 116, 112, 117, 116, 32,
               102, 105, 108, 101, 32, 115, 112, 101, 99, 105, 102, 105, 101,
                     100, 32, 98, 101, 102, 111, 114, 101, 32>>
                             \o setter \o <<61>> \o s)
         ELSE IF s \notin DOMAIN cmd.files \/ cmd.files[s] = None
         THEN withExc(cmd, "IOError")
         ELSE Cmd(TtfFile_init(cmd.files[s]), FALSE, cmd.error, cmd.files,
                  cmd.exc, Append(cmd.log, "loaded"))
    ELSE IF ~cmd.ttf.open
    THEN withError(cmd, <<78, 111, 32, 105, 110, 112, 117, 116, 32, 102, 105,
          108, 101, 32, 115, 112, 101, 99, 105, 102, 105, 101, 100, 32, 102,
                111, 114, 32>>
                        \o setter \o <<61>> \o s)
    ELSE IF setter = <<111, 102>> THEN wroteFont(cmd, s,
          TtfFile_write(cmd.ttf))
    ELSE IF fieldIndex(setter) = 0
    THEN withError(cmd, <<85, 110, 107, 110, 111, 119, 110, 32, 99, 111, 109,
          109, 97, 110, 100, 58, 32>> \o setter \o <<61>> \o s)
    ELSE setField(cmd, HackFields[fieldIndex(setter)], setter, s)

\* cmd.processArg(arg); nothing more is done once an exception has ended
\* the program
processArg(cmd, arg) ==
    IF cmd.exc # "" THEN cmd
    ELSE IF cmd.error # None THEN cmd
    ELSE IF equalsAt(arg) # 0
    THEN processSet(cmd, SubSeq(arg, 1, equalsAt(arg) - 1),
                    SubSeq(arg, equalsAt(arg) + 1, Len(arg)))
    ELSE processGet(cmd, arg)

\* cmd.processArgs(args)
processArgs(cmd, args) ==
    IF args = <<>> THEN cmd
    ELSE CHOOSE r \in {processArgs(c, Tail(args)) :
                        c \in {processArg(cmd, Head(args))}} : TRUE

\* cmd.close(): the error it leaves
closeError(changed, error, ttf) ==
    IF error # None THEN error
    ELSE IF changed THEN <<78, 111, 32, 111, 117, 116, 112, 117, 116, 32,
          102, 105, 108, 101, 32, 115, 112, 101, 99, 105, 102, 105, 101, 100>>
    ELSE IF ~ttf.open THEN <<78, 111, 32, 105, 110, 112, 117, 116, 32, 102,
          105, 108, 101, 32, 115, 112, 101, 99, 105, 102, 105, 101, 100>>
    ELSE error

\* the most arguments on the command line
MaxArgs == 3

\* the font in.ttf: a head table of 54 bytes and a cmap table
hackFont ==
    MakeFont(U32(1, 0), <<fontTable(HEAD, [i \in 1..54 |-> i]),
                          fontTable(CMAP, cmapData)>>)

\* the file of arguments args.txt: its second line writes to a path that
\* ends in the newline of the line
argsText == <<120, 77, 105, 110, 61, 45, 50, 10, 111, 102, 61, 111, 117, 116,
      46, 116, 116, 102, 10, 121, 77, 97, 120, 61, 57>>
OutPathLine == <<111, 117, 116, 46, 116, 116, 102, 10>>

\* the arguments given
HackArgs ==
    { <<105, 102, 61, 105, 110, 46, 116, 116, 102>>, <<105, 102, 61, 111,
          117, 116, 46, 116, 116, 102>>, <<111, 102, 61, 111, 117, 116, 46,
                116, 116, 102>>, <<115, 102, 61, 97, 114, 103, 115, 46, 116,
                      120, 116>>,
      <<120, 77, 105, 110, 61, 53>>, <<120, 77, 105, 110, 61, 97, 98, 99>>,
            <<117, 110, 105, 116, 115, 80, 101, 114, 69, 109, 61, 55, 48, 48,
                  48, 48>>, <<104, 104, 101, 97, 65, 115, 99, 101, 110, 116,
                        61, 55>>,
      <<120, 77, 105, 110>>, <<104, 104, 101, 97, 65, 115, 99, 101, 110,
            116>>, <<104, 101, 108, 112>>, <<98, 111, 103, 117, 115>>, <<98,
                  111, 103, 117, 115, 61, 49>> }

\* the program starts in a directory that holds in.ttf and args.txt
HackStart ==
    /\ hkFiles = [p \in HackPaths \cup {OutPathLine} |->
                     IF p = InPath THEN hackFont
                     ELSE IF p = ArgsPath THEN argsText ELSE None]
    /\ hkTtf = NoTtf
    /\ hkBefore = NoTtf
    /\ hkChanged = FALSE
    /\ hkError = None
    /\ hkExc = ""
    /\ hkLog = <<>>
    /\ hkArgs = <<>>
    /\ hkPc = "args"

\* cmd.processArg(arg), for the next argument of the command line
ProcessArg(arg) ==
    /\ hkPc = "args"
    /\ Len(hkArgs) < MaxArgs
    /\ hkArgs' = Append(hkArgs, arg)
    /\ \E r \in {processArg(Cmd(hkTtf, hkChanged, hkError, hkFiles, hkExc,
                                hkLog), arg)} :
           /\ hkTtf' = r.ttf
           /\ hkChanged' = r.changed
           /\ hkError' = r.error
           /\ hkFiles' = r.files
           /\ hkExc' = r.exc
           /\ hkLog' = r.log
           /\ hkPc' = IF r.exc # "" THEN "crashed" ELSE "args"
    /\ UNCHANGED <<hkBefore, copyVars, againVars, convVars, mapVars, lookupVars, mergeVars, textVars, codecVars, fontVars, headerVars>>

\* cmd.close(), after the last argument
Close ==
    /\ hkPc = "args"
    /\ hkArgs # <<>>
    /\ hkError' = closeError(hkChanged, hkError, hkTtf)
    /\ hkPc' = "closed"
    /\ UNCHANGED <<hkFiles, hkTtf, hkBefore, hkChanged, hkExc, hkLog, hkArgs, copyVars, againVars, convVars, mapVars, lookupVars, mergeVars, textVars, codecVars, fontVars, headerVars>>

HackNext ==
    \/ \E arg \in HackArgs : ProcessArg(arg)
    \/ Close

----------------------------------------------------------------------------
(* The codec of the Unihan files.                                          *)

RECURSIVE digitsValue(_, _)
\* int(s, base) of a run of digits, as a Python integer; past 2^36 the
\* upper part stays where it is, such a value being out of every range here
digitsValue(s, base) ==
    IF s = <<>> THEN U32(0, 0)
    ELSE LET v == digitsValue(SubSeq(s, 1, Len(s) - 1), base)
             l == v.lo * base + hexDigitValue(s[Len(s)])
         IN  U32(Min(v.hi * base + l \div 65536, 1048576), l % 65536)

\* -v
negate(v) ==
    IF v.lo = 0 THEN U32(0 - v.hi, 0) ELSE U32(0 - v.hi - 1, 65536 - v.lo)

\* int(s), for s that int reads (intDecOk)
intDecValue(s) ==
    IF s[1] = 45 THEN negate(digitsValue(Tail(s), 10))
    ELSE IF s[1] = 43 THEN digitsValue(Tail(s), 10)
    ELSE digitsValue(s, 10)

\* whether the loop body of entriesFromDecimalStringMap gets past its
\* tests for the value sv: int reads it, the number is within signed 32
\* bits, and '%d' gives sv back
decimalStringOk(sv) ==
    /\ intDecOk(sv)
    /\ checkSigned32Ok(intDecValue(sv))
    /\ formatDec(intDecValue(sv)) = sv

\* the same for entriesFromHexadecimalStringMap, with '%04X'
hexadecimalStringOk(sv) ==
    /\ intHexOk(sv)
    /\ checkUnsigned32Ok(digitsValue(sv, 16))
    /\ formatHex(digitsValue(sv, 16)) = sv

\* what the two functions return: None (ok is FALSE), or the entries
NoEntries == [entries |-> <<>>, ok |-> FALSE]

\* the items of sortedMap(m) with their value converted
convertedMap(m, base) ==
    [cp \in {k \in DOMAIN m : m[k] # <<>>} |->
        IF base = 10 THEN intDecValue(m[cp]) ELSE digitsValue(m[cp], 16)]

\* entriesFromDecimalStringMap
entriesFromDecimalStringMap(m) ==
    IF \E cp \in DOMAIN m : m[cp] # <<>> /\ ~decimalStringOk(m[cp])
    THEN NoEntries
    ELSE [entries |-> runsFromMap(convertedMap(m, 10), DECIMAL), ok |-> TRUE]

\* entriesFromHexadecimalStringMap
entriesFromHexadecimalStringMap(m) ==
    IF \E cp \in DOMAIN m : m[cp] # <<>> /\ ~hexadecimalStringOk(m[cp])
    THEN NoEntries
    ELSE [entries |-> entriesFromRuns(runsFromMap(convertedMap(m, 16),
                                                  HEXADECIMAL),
                                      HEXMULTIPLE, HEXADECIMAL),
          ok |-> TRUE]

\* the choice of entries without the decimal and the hexadecimal form
unihanEntriesAsNames(m) == entriesFromNameMap(m)

\* the entries PuaaUnihanCodec.compile appends for the map of a property
unihanEntries(m) ==
    IF entriesFromDecimalStringMap(m).ok
    THEN entriesFromDecimalStringMap(m).entries
    ELSE IF entriesFromHexadecimalStringMap(m).ok
    THEN entriesFromHexadecimalStringMap(m).entries
    ELSE entriesFromNameMap(m)

\* re.split('\\s+', s, 2) of a stripped line: at most three fields
unihanSplit(s) ==
    IF Cardinality(runStarts(s, Spaces)) = 0 THEN <<s>>
    ELSE IF Cardinality(runStarts(s, Spaces)) = 1
    THEN <<SubSeq(s, 1, nthOf(runStarts(s, Spaces), 1, 0) - 1),
           SubSeq(s, nthOf(runEnds(s, Spaces), 1, 0) + 1, Len(s))>>
    ELSE <<SubSeq(s, 1, nthOf(runStarts(s, Spaces), 1, 0) - 1),
           SubSeq(s, nthOf(runEnds(s, Spaces), 1, 0) + 1,
                     nthOf(runStarts(s, Spaces), 2, 0) - 1),
           SubSeq(s, nthOf(runEnds(s, Spaces), 2, 0) + 1, Len(s))>>

\* re.sub('^([Uu][+]|[0][Xx])', '', s)
unihanCodePointText(s) ==
    IF /\ Len(s) >= 2
       /\ \/ s[1] \in {85, 117} /\ s[2] = 43
          \/ s[1] = 48 /\ s[2] \in {88, 120}
    THEN SubSeq(s, 3, Len(s)) ELSE s

\* props[prop][cp] = value; props is kept in the order the properties
\* were first seen in, as the dict keeps them
unihanSet(props, prop, cp, value) ==
    IF \E i \in 1..Len(props) : props[i].prop = prop
    THEN [i \in 1..Len(props) |->
            IF props[i].prop = prop
            THEN [m |-> setRange(props[i].m, cp, cp, value), prop |-> prop]
            ELSE props[i]]
    ELSE Append(props, [m |-> setRange(EmptyMap, cp, cp,
          value), prop |-> prop])

\* what one line does to props
unihanLine(props, line) ==
    IF strip(line) = <<>> \/ strip(line)[1] = 35 THEN props
    ELSE IF Len(unihanSplit(strip(line))) < 3 THEN props
    ELSE IF ~intHexOk(unihanCodePointText(unihanSplit(strip(line))[1]))
    THEN props
    ELSE unihanSet(props, unihanSplit(strip(line))[2],
                   intHex(unihanCodePointText(unihanSplit(strip(line))[1])),
                   unihanSplit(strip(line))[3])

RECURSIVE unihanProps(_, _)
unihanProps(f, props) ==
    IF f = <<>> THEN props
    ELSE unihanProps(Tail(f), unihanLine(props, Head(f)))

RECURSIVE unihanAppend(_, _)
\* the second loop of compile over the properties left
unihanAppend(subtables, props) ==
    IF props = <<>> THEN subtables
    ELSE unihanAppend(appendEntries(subtables, Head(props).prop,
                                    unihanEntries(Head(props).m)),
                      Tail(props))

\* PuaaUnihanCodec.compile(puaa, f)
PuaaUnihanCodec_compile(subtables, f) ==
    unihanAppend(subtables, unihanProps(f, <<>>))

----------------------------------------------------------------------------
(* Tables filled from a map of code points to strings or to names, and     *)
(* from the lines of Jamo.txt; the runs of their entries.                  *)

\* what one line of Jamo.txt appends: the value is '' when the line has
\* one field only
jamoLine(fields) ==
    IF fields = NoFields THEN <<>>
    ELSE IF Len(fields) < 1 THEN <<>>
    ELSE IF ~splitRange(fields[1]).ok THEN <<>>
    ELSE <<SingleEntry(splitRange(fields[1]).fcp, splitRange(fields[1]).lcp,
                       IF Len(fields) > 1 THEN strip(fields[2]) ELSE <<>>)>>

RECURSIVE jamoEntries(_)
jamoEntries(f) ==
    IF f = <<>> THEN <<>>
    ELSE jamoLine(splitLine(Head(f))) \o jamoEntries(Tail(f))

Jamo_Short_Name == <<74, 97, 109, 111, 95, 83, 104, 111, 114, 116, 95, 78,
      97, 109, 101>>

\* JamoCodec.compile(puaa, f)
JamoCodec_compile(subtables, f) ==
    appendEntries(subtables, Jamo_Short_Name, jamoEntries(f))

\* the code points of the maps: the last two of plane 0 and the first two
\* of plane 1
MapKeys == 65534..65537

\* the values of the maps: names that share their first words, their last
\* words, both, or none
MapValues == {<<65>>, <<65, 32, 66>>, <<65, 32, 67>>, <<66, 32, 67>>, <<65,
      32, 66, 32, 67>>}

\* the maps with values that fit into a string of the blob
ShortMaps == UNION {[K -> MapValues] : K \in SUBSET MapKeys}

\* a name of 300 bytes, which is one word
longAscii == [i \in 1..300 |-> 97]
\* a name of 344 bytes: 86 of one byte, then 86 of three
longMixed == [i \in 1..172 |-> IF i <= 86 THEN 97 ELSE 8364]
\* a name of 257 bytes and 129 code units, the unit in the middle being
\* the second of a surrogate pair
longAstral == [i \in 1..65 |-> IF i = 1 THEN 97 ELSE 128512]
\* a word of 256 bytes
longWord == [i \in 1..256 |-> 97]

\* the maps with a value of more than 255 bytes, none of more than 510
LongMaps ==
    {[cp \in {65536} |-> longAscii], [cp \in {65536} |-> longMixed],
     [cp \in {65536} |-> longAstral], [cp \in {65536, 65537} |-> longWord]}

\* lines of a Jamo.txt, U+110B among them
JamoFiles ==
    { << <<49, 49, 48, 48, 59, 32, 71, 32, 35, 32, 72, 65, 78, 71, 85, 76,
          32, 67, 72, 79, 83, 69, 79, 78, 71, 32, 75, 73, 89, 69, 79, 75, 10>>,
         <<49, 49, 48, 66, 59, 32, 32, 35, 32, 72, 65, 78, 71, 85, 76, 32,
               67, 72, 79, 83, 69, 79, 78, 71, 32, 73, 69, 85, 78, 71, 10>>,
         <<49, 49, 48, 67, 59, 32, 74, 32, 35, 32, 72, 65, 78, 71, 85, 76,
               32, 67, 72, 79, 83, 69, 79, 78, 71, 32, 67, 73, 69, 85, 67,
                     10>> >>,
      << <<49, 49, 54, 49, 59, 32, 65, 10>>, <<49, 49, 54, 50, 59, 32, 65,
            69, 10>>, <<35, 32, 74, 97, 109, 111, 10>>, <<49, 49, 48, 66,
                  10>> >> }

\* the value texts of the Unihan files: decimal and hexadecimal numbers at
\* and past the ends of their ranges, padded, signed and lower-case ones,
\* and plain text
UnihanValues ==
    { <<49>>, <<49, 50, 51, 52>>, <<45, 53>>, <<45, 48>>, <<43, 53>>, <<48,
          48, 55>>, <<48, 48, 52, 49>>, <<97, 98, 99, 100>>,
      <<50, 49, 52, 55, 52, 56, 51, 54, 52, 55>>, <<50, 49, 52, 55, 52, 56,
            51, 54, 52, 56>>, <<45, 50, 49, 52, 55, 52, 56, 51, 54, 52, 56>>,
                  <<45, 50, 49, 52, 55, 52, 56, 51, 54, 52, 57>>,
      <<70, 70, 70, 70, 70, 70, 70, 70>>, <<49, 48, 48, 48, 48, 48, 48, 48,
            48>>, <<79, 78, 69, 32, 32, 65>> }

\* one line of a Unihan file: code point, property and value, tab separated
unihanText(cp, prop, value) ==
    cp \o <<9>> \o prop \o <<9>> \o value \o <<10>>

\* files giving kA at three code points, two of them on either side of the
\* end of a plane, and kB at another, between a comment, a blank line, a
\* line of two fields and a line whose code point does not read; and files
\* that give a value twice
UnihanFiles ==
    { << <<35, 32, 85, 110, 105, 104, 97, 110, 10>>,
         unihanText(<<85, 43, 70, 70, 70, 70>>, <<107, 65>>, a),
         unihanText(<<117, 43, 49, 48, 48, 48, 48>>, <<107, 65>>, b),
         <<10>>, <<85, 43, 49, 48, 48, 48, 49, 32, 107, 65, 10>>, <<85, 43,
               90, 90, 32, 107, 65, 32, 53, 10>>,
         unihanText(<<48, 120, 49, 48, 48, 48, 49>>, <<107, 66>>, b),
         <<32, 32, 49, 48, 48, 48, 49, 32, 32, 32, 107, 65, 32, 32, 32,
               32>> \o a \o <<32, 32, 10>> >> : a, b \in UnihanValues }
    \cup { << unihanText(<<85, 43, 49, 48, 48, 48, 48>>, <<107, 65>>, a),
              unihanText(<<85, 43, 49, 48, 48, 48, 48>>, <<107, 65>>,
                    b) >> : a, b \in UnihanValues }

MapInit ==
    /\ gmMap = EmptyMap
    /\ gmFile = <<>>
    /\ gmCall = ""
    /\ gmTable = <<>>
    /\ gmRuns = [runs |-> <<>>, subtable |-> 0]
    /\ gmBlob = <<>>
    /\ gmFresh = <<>>
    /\ gmErr = ""
    /\ gmPc = "start"

\* puaa.subtable('Name', True).entries += entriesFromStringMap(m)
AppendStringMap(m) ==
    /\ gmPc = "start"
    /\ gmMap' = m
    /\ gmCall' = "entriesFromStringMap"
    /\ gmTable' = appendEntries(gmTable, sName, entriesFromStringMap(m))
    /\ gmPc' = "filled"
    /\ UNCHANGED <<gmFile, gmRuns, gmBlob, gmFresh, gmErr, hackVars, copyVars, againVars, convVars, lookupVars, mergeVars, textVars, codecVars, fontVars, headerVars>>

\* puaa.subtable('Name', True).entries += entriesFromNameMap(m)
AppendNameMap(m) ==
    /\ gmPc = "start"
    /\ gmMap' = m
    /\ gmCall' = "entriesFromNameMap"
    /\ gmTable' = appendEntries(gmTable, sName, entriesFromNameMap(m))
    /\ gmPc' = "filled"
    /\ UNCHANGED <<gmFile, gmRuns, gmBlob, gmFresh, gmErr, hackVars, copyVars, againVars, convVars, lookupVars, mergeVars, textVars, codecVars, fontVars, headerVars>>

\* JamoCodec().compile(puaa, f)
JamoCompile(f) ==
    /\ gmPc = "start"
    /\ gmFile' = f
    /\ gmCall' = "JamoCodec"
    /\ gmTable' = JamoCodec_compile(gmTable, f)
    /\ gmPc' = "filled"
    /\ UNCHANGED <<gmMap, gmRuns, gmBlob, gmFresh, gmErr, hackVars, copyVars, againVars, convVars, lookupVars, mergeVars, textVars, codecVars, fontVars, headerVars>>

\* PuaaUnihanCodec('Unihan.txt', ...).compile(puaa, f)
UnihanCompile(f) ==
    /\ gmPc = "start"
    /\ gmFile' = f
    /\ gmCall' = "PuaaUnihanCodec"
    /\ gmTable' = PuaaUnihanCodec_compile(gmTable, f)
    /\ gmPc' = "filled"
    /\ UNCHANGED <<gmMap, gmRuns, gmBlob, gmFresh, gmErr, hackVars, copyVars, againVars, convVars, lookupVars, mergeVars, textVars, codecVars, fontVars, headerVars>>

\* runs = runsFromEntries(table.entries), as the lookup command and the
\* decompile of a PuaaStringCodec call it
RunsFromEntries(i) ==
    /\ gmPc = "filled"
    /\ i \in 1..Len(gmTable)
    /\ gmRuns' = [runs |-> runsFromEntries(gmTable[i].entries), subtable |-> i]
    /\ gmPc' = "runs"
    /\ UNCHANGED <<gmMap, gmFile, gmCall, gmTable, gmBlob, gmFresh, gmErr, hackVars, copyVars, againVars, convVars, lookupVars, mergeVars, textVars, codecVars, fontVars, headerVars>>

\* blob = puaa.compile()
MapTableCompile ==
    /\ gmPc = "filled"
    /\ \E r \in {PuaaTable_compile(gmTable)} :
           /\ gmTable' = r.subtables
           /\ gmBlob' = r.data
           /\ gmErr' = r.err
           /\ gmPc' = IF r.err = "" THEN "compiled" ELSE "failed"
    /\ UNCHANGED <<gmMap, gmFile, gmCall, gmRuns, gmFresh, hackVars, copyVars, againVars, convVars, lookupVars, mergeVars, textVars, codecVars, fontVars, headerVars>>

\* fresh = PuaaTable(); fresh.decompile(blob)
MapTableDecompile ==
    /\ gmPc = "compiled"
    /\ \E r \in {PuaaTable_decompile(<<>>, gmBlob)} :
           /\ gmFresh' = r.subtables
           /\ gmErr' = r.err
           /\ gmPc' = IF r.err = "" THEN "decompiled" ELSE "failed"
    /\ UNCHANGED <<gmMap, gmFile, gmCall, gmTable, gmRuns, gmBlob, hackVars, copyVars, againVars, convVars, lookupVars, mergeVars, textVars, codecVars, fontVars, headerVars>>

MapNext ==
    \/ \E m \in ShortMaps \cup LongMaps : AppendStringMap(m)
    \/ \E m \in ShortMaps \cup LongMaps : AppendNameMap(m)
    \/ \E f \in JamoFiles : JamoCompile(f)
    \/ \E f \in UnihanFiles : UnihanCompile(f)
    \/ \E i \in 1..2 : RunsFromEntries(i)
    \/ MapTableCompile
    \/ MapTableDecompile

----------------------------------------------------------------------------
(* The specifications.                                                     *)

Init == CodecInit /\ FontIdle /\ HeaderIdle /\ TextInit /\ LookupIdle /\ MergeInit /\ MapInit /\ ConvInit /\ AgainInit /\ CopyInit /\ HackInit
Next == CodecNext
Spec == Init /\ [][Next]_vars

InitFont == CodecInit /\ pc = "build" /\ FontInit /\ HeaderIdle /\ TextInit /\ LookupIdle /\ MergeInit /\ MapInit /\ ConvInit /\ AgainInit /\ CopyInit /\ HackInit
NextFont == FontNext
SpecFont == InitFont /\ [][NextFont]_vars

InitHeader == CodecInit /\ FontIdle /\ HeaderInit /\ TextInit /\ LookupIdle /\ MergeInit /\ MapInit /\ ConvInit /\ AgainInit /\ CopyInit /\ HackInit
NextHeader == HeaderNext
SpecHeader == InitHeader /\ [][NextHeader]_vars

InitText == CodecInit /\ FontIdle /\ HeaderIdle /\ TextInit /\ LookupIdle /\ MergeInit /\ MapInit /\ ConvInit /\ AgainInit /\ CopyInit /\ HackInit
NextText == TextNext
SpecText == InitText /\ [][NextText]_vars

InitLookup == CodecInit /\ FontIdle /\ HeaderIdle /\ TextInit /\ LookupInit /\ MergeInit /\ MapInit /\ ConvInit /\ AgainInit /\ CopyInit /\ HackInit
NextLookup == LookupNext
SpecLookup == InitLookup /\ [][NextLookup]_vars

InitMerge == CodecInit /\ FontIdle /\ HeaderIdle /\ TextInit /\ LookupIdle /\ MergeInit /\ MapInit /\ ConvInit /\ AgainInit /\ CopyInit /\ HackInit
NextMerge == MergeNext
SpecMerge == InitMerge /\ [][NextMerge]_vars

InitMap == CodecInit /\ FontIdle /\ HeaderIdle /\ TextInit /\ LookupIdle /\ MergeInit /\ MapInit /\ ConvInit /\ AgainInit /\ CopyInit /\ HackInit
NextMap == MapNext
SpecMap == InitMap /\ [][NextMap]_vars

InitConv == CodecInit /\ FontIdle /\ HeaderIdle /\ TextInit /\ LookupIdle /\ MergeInit /\ MapInit /\ ConvInit /\ AgainInit /\ CopyInit /\ HackInit
NextConv == ConvNext
SpecConv == InitConv /\ [][NextConv]_vars

InitAgain == CodecInit /\ FontIdle /\ HeaderIdle /\ TextInit /\ LookupIdle /\ MergeInit /\ MapInit /\ ConvInit /\ AgainInit /\ CopyInit /\ HackInit
NextAgain == AgainNext
SpecAgain == InitAgain /\ [][NextAgain]_vars

InitCopy == CodecInit /\ FontIdle /\ HeaderIdle /\ TextInit /\ LookupIdle /\ MergeInit /\ MapInit /\ ConvInit /\ AgainInit /\ CopyInit /\ HackInit
NextCopy == CopyNext
SpecCopy == InitCopy /\ [][NextCopy]_vars

InitTtf == CodecInit /\ FontIdle /\ HeaderIdle /\ TextInit /\ LookupIdle /\ MergeInit /\ MapInit /\ ConvInit /\ AgainInit /\ CopyInit /\ HackInit
NextTtf == TtfNext
SpecTtf == InitTtf /\ [][NextTtf]_vars

InitHack == CodecInit /\ FontIdle /\ HeaderIdle /\ TextInit /\ LookupIdle /\ MergeInit /\ MapInit /\ ConvInit /\ AgainInit /\ CopyInit /\ HackStart
NextHack == HackNext
SpecHack == InitHack /\ [][NextHack]_vars

----------------------------------------------------------------------------
(* Properties of the codec round trip.                                     *)

\* C1: for every table T, with D = T.compile(), decompiling D into a fresh
\* table and compiling that table again yields bytes identical to D
C1_RoundTrip == pc = "recompiled" => comp = data

\* C2: for every property name P and code point cp, T.propertyValue(P, cp)
\* before T.compile() equals propertyValue(P, cp) of the fresh table
\* decompiled from T.compile()
C2_LookupEquivalence ==
    pc = "decompiled" =>
        \A propertyName \in PropertyNames, cp \in CodePoints :
            PuaaTable_propertyValue(fresh, propertyName, cp)
                = PuaaTable_propertyValue(tableBefore, propertyName, cp)

----------------------------------------------------------------------------
(* Properties of the files writePUAA writes.                               *)

\* the directory records of the written file with this tag
outRecords(tag) ==
    SelectSeq(ttfDirectory(outFile), LAMBDA rec : rec.tag = tag)

\* the payload of a record as the directory checksum covers it: for head,
\* with bytes 8..12 zeroed
coveredPayload(f, rec) ==
    IF rec.tag = HEAD THEN clearChecksum(ttfPayload(f, rec))
    ELSE ttfPayload(f, rec)

C4_DirectoryChecksums ==
    fpc = "written" =>
        \A i \in 1..Len(ttfDirectory(outFile)) :
            ttfDirectory(outFile)[i].checksum
                = chksum(coveredPayload(outFile, ttfDirectory(outFile)[i]))

\* the directory records of the input font that writePUAA keeps
inKept == SelectSeq(ttfDirectory(inFile), LAMBDA rec : rec.tag # PUAA)

\* the directory records of the written file that are not the PUAA table
outKept == SelectSeq(ttfDirectory(outFile), LAMBDA rec : rec.tag # PUAA)

\* the record of the written file that has the tag of rec
outRecordOf(rec) == outRecords(rec.tag)[1]

\* the record's payload in the written file is its payload in the input
\* font, but for bytes 8..12 of head
samePayload(rec) ==
    /\ Len(outRecords(rec.tag)) = 1
    /\ Len(ttfPayload(outFile, outRecordOf(rec))) = Len(ttfPayload(inFile, rec))
    /\ coveredPayload(outFile, outRecordOf(rec)) = coveredPayload(inFile, rec)

\* the PUAA table of the written file is the one compiled from puaa, and
\* there is none when puaa is None
installedPUAA ==
    IF puaaArg.given
    THEN /\ Len(outRecords(PUAA)) = 1
         /\ ttfPayload(outFile, outRecords(PUAA)[1])
                = PuaaTable_compile(puaaArg.subtables).data
    ELSE outRecords(PUAA) = <<>>

inputOffset(rec) ==
    IF rec.tag = PUAA THEN UINT_MAX
    ELSE SelectSeq(ttfDirectory(inFile), LAMBDA r : r.tag = rec.tag)[1].offset

inputOffsetLess(a, b) == LessInt(inputOffset(a), inputOffset(b))

RECURSIVE sortByInputOffset(_)
\* records in ascending order of their input offsets, ties as they stand
sortByInputOffset(s) ==
    IF s = <<>> THEN <<>>
    ELSE insertAt(sortByInputOffset(SubSeq(s, 1, Len(s) - 1)), s[Len(s)],
             Cardinality({i \in 1..(Len(s) - 1) :
                 ~inputOffsetLess(s[Len(s)], s[i])}))

\* the records of the written file in the order of their input offsets,
\* the compiled PUAA table last
outByOffset == sortByInputOffset(ttfDirectory(outFile))

\* where the payload of record i of outByOffset ends, padding included
paddedEnd(i) ==
    padded(NatOf(outByOffset[i].offset) + NatOf(outByOffset[i].length))

\* the payload a table of the written file has to have
expectedPayload(rec) ==
    IF rec.tag = PUAA THEN PuaaTable_compile(puaaArg.subtables).data
    ELSE coveredPayload(inFile,
             SelectSeq(ttfDirectory(inFile), LAMBDA r : r.tag = rec.tag)[1])

----------------------------------------------------------------------------
(* Properties of the header.                                               *)

\* the largest e with 2^e <= n
floorLog2(n) == CHOOSE e \in 0..30 : 2 ^ e <= n /\ n < 2 ^ (e + 1)

\* the header packed holds numTables and the fields the formulas give
headerFieldsAsSpecified ==
    /\ hdr.err = "" /\ Len(hdr.data) = 12
    /\ shortStruct_unpack(Slice(hdr.data, 4, 6)) = numTables
    /\ shortStruct_unpack(Slice(hdr.data, 8, 10)) = floorLog2(numTables)
    /\ shortStruct_unpack(Slice(hdr.data, 6, 8))
           = 16 * 2 ^ floorLog2(numTables)
    /\ shortStruct_unpack(Slice(hdr.data, 10, 12))
           = 16 * numTables - 16 * 2 ^ floorLog2(numTables)
    /\ IsU16(floorLog2(numTables))
    /\ IsU16(16 * 2 ^ floorLog2(numTables))
    /\ IsU16(16 * numTables - 16 * 2 ^ floorLog2(numTables))

\* C7 as stated: for every number of tables n >= 1 written by writePUAA or
\* TtfFile.write the header holds entrySelector = floor(log2 n),
\* searchRange = 16 * 2^entrySelector and rangeShift = 16 * n - searchRange,
\* all fitting in unsigned 16 bits
C7_HeaderFields ==
    hpc \in {"writePUAA", "TtfFile.write"} /\ numTables >= 1 =>
        headerFieldsAsSpecified

\* C7 amended: that holds for 1 <= n <= 4095; from n = 4096 on searchRange
\* does not fit in 16 bits, packing raises struct.error and no header is
\* written
C7_HeaderFieldsUpTo4095 ==
    hpc \in {"writePUAA", "TtfFile.write"} =>
        /\ 1 <= numTables /\ numTables <= 4095 => headerFieldsAsSpecified
        /\ numTables >= 4096 => hdr.err = "struct.error" /\ hdr.data = <<>>

\* TtfFile.write packed the header of 4095 tables, the most that fit
C7_Witness ==
    /\ hpc = "TtfFile.write" /\ numTables = 4095 /\ hdr.err = ""
    /\ shortStruct_unpack(Slice(hdr.data, 6, 8)) = 32768
    /\ shortStruct_unpack(Slice(hdr.data, 10, 12)) = 32752

----------------------------------------------------------------------------
(* Properties of the string references of a compiled blob.                 *)

\* the 0-based position in the blob d of entry record j of subtable i
entryRecordAt(d, i, j) ==
    NatOf(intStruct_unpack(Slice(d, 8 + (i - 1) * 8, 12 + (i - 1) * 8)))
        + 2 + (j - 1) * 10

\* the string references the blob d holds for the strings of entry e, whose
\* record is at position at: one for each of entryStrings(e)
entryRefs(d, at, e) ==
    CASE e.type = SINGLE -> <<intStruct_unpack(Slice(d, at + 6, at + 10))>>
      [] e.type \in {MULTIPLE, NAMEALIAS} ->
            getInts(d, NatOf(intStruct_unpack(Slice(d, at + 6, at + 10))))
      [] e.type = CASEMAPPING ->
            <<getInts(d, NatOf(intStruct_unpack(Slice(d, at + 6, at + 10))))
                  [Len(e.value.mapping) + 1]>>
      [] OTHER -> <<>>

\* the sites of the compiled table that hold a string: <<i, 0, 0>> for the
\* property name of subtable i, <<i, j, k>> for string k of its entry j
stringSites ==
    {<<i, 0, 0>> : i \in 1..Len(table)}
    \cup UNION {UNION {{<<i, j, k>> :
                          k \in 1..Len(entryStrings(table[i].entries[j]))} :
                      j \in 1..Len(table[i].entries)} : i \in 1..Len(table)}

\* the string at a site, and the reference the blob holds for it
siteString(site) ==
    IF site[2] = 0 THEN table[site[1]].propertyName
    ELSE entryStrings(table[site[1]].entries[site[2]])[site[3]]
siteRef(site) ==
    IF site[2] = 0
    THEN intStruct_unpack(Slice(data, 4 + (site[1] - 1) * 8,
                                8 + (site[1] - 1) * 8))
    ELSE entryRefs(data, entryRecordAt(data, site[1], site[2]),
                   table[site[1]].entries[site[2]])[site[3]]

\* a string of 1 to 4 bytes, all in [0x01, 0x7F]
isShortAscii(s) ==
    /\ s # None /\ 1 <= Len(encode(s)) /\ Len(encode(s)) <= 4
    /\ \A k \in 1..Len(encode(s)) : 1 <= encode(s)[k] /\ encode(s)[k] <= 127

\* the inline tagged u32 of the bytes b: top bit set, bytes packed high to
\* low
inlineWord(b) ==
    U32(32768 + (IF Len(b) >= 1 THEN b[1] ELSE 0) * 256
              + (IF Len(b) >= 2 THEN b[2] ELSE 0),
        (IF Len(b) >= 3 THEN b[3] ELSE 0) * 256
              + (IF Len(b) >= 4 THEN b[4] ELSE 0))

\* C8: every string s of 1 to 4 bytes, all in [0x01, 0x7F], used as an
\* entry value anywhere in a table is stored as an inline tagged u32, not
\* in the string pool, and decompile returns exactly s
C8_InlineStrings ==
    pc = "compiled" =>
        \A site \in stringSites :
            site[2] # 0 /\ isShortAscii(siteString(site)) =>
                /\ siteRef(site) = inlineWord(encode(siteString(site)))
                /\ getStr(data, siteRef(site)) = siteString(site)

\* a reference in pool form: top bit clear and not zero
isPoolForm(ref) == ref.hi < 32768 /\ ref # IntOf(0)

\* the sites of the compiled table whose string is stored in pool form
poolSites == {site \in stringSites : isPoolForm(siteRef(site))}

\* where the string pool of the blob starts: at its first record
poolStart ==
    IF poolSites = {} THEN Len(data)
    ELSE NatOf(siteRef(CHOOSE x \in poolSites :
                   \A y \in poolSites : ~LessInt(siteRef(y), siteRef(x))))

RECURSIVE poolRecords(_, _)
\* the records of the string pool of the blob d from position at on: the
\* position sp of each length byte and the bytes s that follow it
poolRecords(d, at) ==
    IF at >= Len(d) THEN <<>>
    ELSE <<[s |-> Slice(d, at + 1, at + 1 + d[at + 1]), sp |-> at]>>
         \o poolRecords(d, at + 1 + d[at + 1])

\* the string pool of the compiled blob
pool == poolRecords(data, poolStart)

\* C9: in every blob produced by compile, each distinct string stored in
\* pool form occurs exactly once in the string pool, and every pool-form
\* reference to that string carries the same offset
C9_PoolDedup ==
    pc = "compiled" =>
        /\ \A a, b \in 1..Len(pool) : a # b => pool[a].s # pool[b].s
        /\ \A site \in poolSites :
               \E a \in 1..Len(pool) :
                   /\ pool[a].sp = NatOf(siteRef(site))
                   /\ pool[a].s = encode(siteString(site))
        /\ \A x, y \in poolSites :
               siteString(x) = siteString(y) => siteRef(x) = siteRef(y)

\* a blob was compiled in which two entries refer to the same pooled string
C9_Witness ==
    /\ pc = "compiled"
    /\ \E x, y \in poolSites :
          /\ x # y /\ x[2] # 0 /\ y[2] # 0
          /\ siteString(x) = siteString(y)
          /\ Len(pool) >= 2

----------------------------------------------------------------------------
(* Properties of the order of the entries.                                 *)

\* two of the entries share a code point
sharesCodePoint(entries) ==
    \E a, b \in 1..Len(entries) :
        /\ a < b
        /\ entries[a].firstCodePoint <= entries[b].lastCodePoint
        /\ entries[b].firstCodePoint <= entries[a].lastCodePoint

\* (firstCodePoint, lastCodePoint) of each entry, in order
rangesOf(entries) ==
    [j \in 1..Len(entries) |->
        <<entries[j].firstCodePoint, entries[j].lastCodePoint>>]

\* the ranges ascend
ascending(ranges) ==
    \A j \in 1..(Len(ranges) - 1) :
        \/ ranges[j][1] < ranges[j + 1][1]
        \/ ranges[j][1] = ranges[j + 1][1] /\ ranges[j][2] <= ranges[j + 1][2]

\* the entries the table had, before compile, in the subtable of this name
entriesBefore(propertyName) ==
    tableBefore[subtableIndex(tableBefore, propertyName)].entries

\* the entries the blob holds for subtable i
entriesEmitted(i) == decompileSubtable(data, i - 1).entries

\* C10: compile never changes the relative order of the entries of a
\* subtable in which two entries share a code point; a subtable whose
\* ranges are pairwise disjoint is emitted with its entries in ascending
\* (firstCodePoint, lastCodePoint) order
C10_SortOnlyDisjoint ==
    pc = "compiled" =>
        \A i \in 1..Len(table) :
            /\ rangesOf(entriesEmitted(i)) = rangesOf(table[i].entries)
            /\ Len(table[i].entries) = Len(entriesBefore(table[i].propertyName))
            /\ IF sharesCodePoint(entriesBefore(table[i].propertyName))
               THEN table[i].entries = entriesBefore(table[i].propertyName)
               ELSE /\ ascending(rangesOf(entriesEmitted(i)))
                    /\ {table[i].entries[j] : j \in 1..Len(table[i].entries)}
                         = {entriesBefore(table[i].propertyName)[j] :
                               j \in 1..Len(table[i].entries)}

\* a table was compiled that had a subtable of two entries out of order
\* that share a code point
C10_Witness ==
    /\ pc = "compiled"
    /\ \E i \in 1..Len(tableBefore) :
          /\ Len(tableBefore[i].entries) = 2
          /\ sharesCodePoint(tableBefore[i].entries)
          /\ ~ascending(rangesOf(tableBefore[i].entries))

----------------------------------------------------------------------------
(* Properties of the text codecs.                                          *)

\* whether the table holds nothing but what the compile of text codecs
\* added to it
onlyCompiled ==
    \A i \in 1..Len(tops) : tops[i].op \in {"codec.compile", "compilePUAA"}

\* an entry whose range is in order and lies in one plane of 65536
withinPlane(entry) ==
    /\ entry.firstCodePoint <= entry.lastCodePoint
    /\ entry.firstCodePoint \div 65536 = entry.lastCodePoint \div 65536

\* C11: every entry that the compile of a text codec adds to a PuaaTable,
\* for any lines, has firstCodePoint <= lastCodePoint and both in the same
\* plane, the entries built from a range written on one line included
C11_EntriesWithinPlane ==
    onlyCompiled =>
        \A i \in 1..Len(tpuaa) : \A j \in 1..Len(tpuaa[i].entries) :
            withinPlane(tpuaa[i].entries[j])

----------------------------------------------------------------------------
(* C12.                                                                   *)

\* the indices of the entries that contain the code point
matchingEntries(entries, cp) ==
    {i \in 1..Len(entries) : contains(entries[i], cp)}

\* the k-th of them in entry order
matchingEntry(entries, cp, k) ==
    CHOOSE i \in matchingEntries(entries, cp) :
        Cardinality({j \in matchingEntries(entries, cp) : j < i}) = k - 1

\* the string forms of the matching entries, joined in entry order
matchingForms(entries, cp) ==
    Concat([k \in 1..Cardinality(matchingEntries(entries, cp)) |->
               PuaaEntry_propertyValue(
                   entries[matchingEntry(entries, cp, k)], cp)])

\* C12: for every entry list and code point, propertyValue(cp) is the
\* concatenation, in entry order, of the string forms of all entries that
\* contain cp, and None when no entry contains it; mapFromEntries gives the
\* same string under the key cp, and has no key cp when no entry contains it.
C12_LookupConcatenates ==
    lkPc = "mapped" =>
        IF matchingEntries(lkEntries, lkCp) = {}
        THEN lkValue = None /\ lkCp \notin DOMAIN lkMap
        ELSE /\ lkValue = matchingForms(lkEntries, lkCp)
             /\ lkCp \in DOMAIN lkMap
             /\ lkMap[lkCp] = lkValue

\* two entries contain the code point and both forms are in the result
C12_Witness ==
    /\ lkPc = "mapped"
    /\ Cardinality(matchingEntries(lkEntries, lkCp)) = 2
    /\ lkEntries[1] # lkEntries[2]
    /\ Len(lkValue) > Len(PuaaEntry_propertyValue(lkEntries[1], lkCp))
    /\ Len(lkValue) > Len(PuaaEntry_propertyValue(lkEntries[2], lkCp))

----------------------------------------------------------------------------
(* C13.                                                                   *)

\* C13: after any sequence of codec compile calls and PuaaTable.decompile
\* calls on one table, no two subtables of the table have the same
\* propertyName.
C13_UniquePropertyNames ==
    \A i, j \in 1..Len(tpuaa) :
        i # j => tpuaa[i].propertyName # tpuaa[j].propertyName

----------------------------------------------------------------------------
(* C14.                                                                   *)

\* the code points of a Blocks.txt line, and the one of a UnicodeData.txt
\* line
blockRange(line) ==
    int16(splitBlockLine(line)[1])..int16(splitBlockLine(line)[2])
charOf(line) == int16(split(line, 59)[1])

acceptedBlocks == UNION {blockRange(dparser.blockLines[i]) :
                            i \in 1..Len(dparser.blockLines)}
acceptedChars == {charOf(dparser.charLines[i]) :
                     i \in 1..Len(dparser.charLines)}

\* the @file lines above line i of a file, and the name the last one gives
fileLinesAbove(lines, i) ==
    {j \in 1..(i - 1) : splitRuns(strip(lines[j]), Spaces)[1] = <<64, 102,
          105, 108, 101>>}
fileNameAbove(lines, i) ==
    IF fileLinesAbove(lines, i) = {} THEN NoFileName
    ELSE splitRuns(strip(lines[CHOOSE j \in fileLinesAbove(lines, i) :
                        \A k \in fileLinesAbove(lines, i) : k <= j]),
                   Spaces)[2]

\* C14: in whatever order the files are processed, the ranges of the
\* accepted Blocks.txt lines are pairwise disjoint and the accepted
\* UnicodeData.txt code points pairwise distinct; the bitsets hold exactly
\* the accepted code points; an included line that intersects an accepted
\* one raises the overlap error and is added to neither, and without an
\* error no included line of a named file is left out.
C14_NoOverlapAccepted ==
    /\ \A i, j \in 1..Len(dparser.blockLines) :
          i # j => blockRange(dparser.blockLines[i])
                   \cap blockRange(dparser.blockLines[j]) = {}
    /\ \A i, j \in 1..Len(dparser.charLines) :
          i # j => charOf(dparser.charLines[i]) # charOf(dparser.charLines[j])
    /\ dparser.blockBits = acceptedBlocks
    /\ dparser.charBits = acceptedChars
    /\ merr.kind = "overlapping block data" =>
          blockRange(merr.line) \cap acceptedBlocks # {}
    /\ merr.kind = "overlapping character data" =>
          charOf(merr.line) \in acceptedChars
    /\ merr = NoError =>
          \A c \in 1..Len(mcalls) :
             \A i \in 1..Len(sourceLines(mcalls[c].file)) :
                mcalls[c].matchesFile =>
                   /\ fileNameAbove(sourceLines(mcalls[c].file), i)
                         = <<66, 108, 111, 99, 107, 115, 46, 116, 120, 116>>
                      /\ strip(sourceLines(mcalls[c].file)[i])[1] # 64
                      => inList(strip(sourceLines(mcalls[c].file)[i]),
                                dparser.blockLines)
                   /\ fileNameAbove(sourceLines(mcalls[c].file), i)
                         = <<85, 110, 105, 99, 111, 100, 101, 68, 97, 116,
                               97, 46, 116, 120, 116>>
                      /\ strip(sourceLines(mcalls[c].file)[i])[1] # 64
                      => inList(strip(sourceLines(mcalls[c].file)[i]),
                                dparser.charLines)

\* a line was accepted, and a later one that shares one code point with it
\* and has another of its own was refused
C14_Witness ==
    /\ merr.kind = "overlapping block data"
    /\ dparser.blockLines # <<>>
    /\ \E i \in 1..Len(dparser.blockLines) :
          /\ blockRange(merr.line) \cap blockRange(dparser.blockLines[i]) # {}
          /\ blockRange(merr.line) \ blockRange(dparser.blockLines[i]) # {}
    /\ ~inList(merr.line, dparser.blockLines)

----------------------------------------------------------------------------
(* C15.                                                                   *)

\* the fields of a control line, and the tokens the control lines of one
\* keyword above line i give
controlFields(line) == splitRuns(strip(line), Spaces)
tokensAbove(lines, i, keyword) ==
    {controlFields(lines[j])[2] :
        j \in {j \in 1..(i - 1) : controlFields(lines[j])[1] = keyword}}

\* the body lines of a file that belong to an output file
bodyLinesOf(lines) ==
    {i \in 1..Len(lines) :
        strip(lines[i])[1] # 64 /\ fileNameAbove(lines, i) # NoFileName}

\* whether the parser holds line i of the file among its accepted lines
lineTaken(lines, i) ==
    IF fileNameAbove(lines, i) = <<66, 108, 111, 99, 107, 115, 46, 116, 120,
          116>>
    THEN inList(strip(lines[i]), dparser.blockLines)
    ELSE IF fileNameAbove(lines, i) = <<85, 110, 105, 99, 111, 100, 101, 68,
          97, 116, 97, 46, 116, 120, 116>>
    THEN inList(strip(lines[i]), dparser.charLines)
    ELSE /\ fileNameAbove(lines, i) \in DOMAIN dparser.fileLines
         /\ inList(strip(lines[i]), dparser.fileLines[fileNameAbove(lines, i)])

\* whether the file is in the list of matched files
fileMatched(file) ==
    \E k \in 1..Len(dparser.matchedFiles) : dparser.matchedFiles[k].file = file

\* the files processed so far
filesProcessed == {mcalls[c].file : c \in 1..Len(mcalls)}

\* (a), (b) or (c) for a call, over the control lines above line i (all of
\* them for i past the last line): the
\* file was named, or a flag of the file is active and no --no- form of its
\* flags is, or a substring of the file is in the superstring
includedAsStated(call, lines, i) ==
    \/ call.matchesFile
    \/ /\ \E f \in tokensAbove(lines, i, <<64, 102, 108, 97,
          103>>) : inList(f, dparser.flags)
       /\ ~\E f \in tokensAbove(lines, i, <<64, 102, 108, 97, 103>>) :
              inList(noFlag(f), dparser.flags)
    \/ \E s \in tokensAbove(lines, i, <<64, 115, 117, 98, 115, 116, 114, 105,
          110, 103>>) :
          isSubstring(s, dparser.superstring)

\* the same with the --no- form of any flag of the file undoing a flag
\* match and a substring match alike
includedUnlessNoFlag(call, lines, i) ==
    \/ call.matchesFile
    \/ /\ \/ \E f \in tokensAbove(lines, i, <<64, 102, 108, 97, 103>>) :
                inList(f, dparser.flags)
          \/ \E s \in tokensAbove(lines, i, <<64, 115, 117, 98, 115, 116,
                114, 105, 110, 103>>) :
                isSubstring(s, dparser.superstring)
       /\ ~\E f \in tokensAbove(lines, i, <<64, 102, 108, 97, 103>>) :
              inList(noFlag(f), dparser.flags)

\* C15 as stated: a file's body is included iff (a) the file was named, or
\* (b) one of its @flag tokens is active and no --no-<flag> for it, or (c)
\* one of its @substring tokens is a substring of the superstring, whether
\* or not a --no-<flag> is active.
C15_IncludedAsStated ==
    merr = NoError =>
        \A file \in filesProcessed :
            /\ \A i \in bodyLinesOf(sourceLines(file)) :
                  lineTaken(sourceLines(file), i)
                  <=> \E c \in 1..Len(mcalls) :
                         /\ mcalls[c].file = file
                         /\ includedAsStated(mcalls[c], sourceLines(file), i)
            /\ fileMatched(file)
               <=> \E c \in 1..Len(mcalls) :
                      /\ mcalls[c].file = file
                      /\ includedAsStated(mcalls[c], sourceLines(file),
                                          Len(sourceLines(file)) + 1)

\* C15, amended: a body line is taken iff the file was named, or a @flag
\* token above the line is active or a @substring token above it is in the
\* superstring, and no @flag token above it has its --no- form active; the
\* file is listed as matched on the same condition over all its lines.
C15_IncludedUnlessNoFlag ==
    merr = NoError =>
        \A file \in filesProcessed :
            /\ \A i \in bodyLinesOf(sourceLines(file)) :
                  lineTaken(sourceLines(file), i)
                  <=> \E c \in 1..Len(mcalls) :
                         /\ mcalls[c].file = file
                         /\ includedUnlessNoFlag(mcalls[c], sourceLines(file),
                                                 i)
            /\ fileMatched(file)
               <=> \E c \in 1..Len(mcalls) :
                      /\ mcalls[c].file = file
                      /\ includedUnlessNoFlag(mcalls[c], sourceLines(file),
                                              Len(sourceLines(file)) + 1)

\* a file one of whose substrings is in the superstring was processed with
\* the --no- form of one of its flags active, and its body was left out
C15_Witness ==
    /\ merr = NoError
    /\ \E c \in 1..Len(mcalls) :
          /\ ~mcalls[c].matchesFile
          /\ \E s \in tokensAbove(sourceLines(mcalls[c].file),
                                  Len(sourceLines(mcalls[c].file)) + 1,
                                  <<64, 115, 117, 98, 115, 116, 114, 105,
                                        110, 103>>) :
                isSubstring(s, dparser.superstring)
          /\ \E f \in tokensAbove(sourceLines(mcalls[c].file),
                                  Len(sourceLines(mcalls[c].file)) + 1,
                                  <<64, 102, 108, 97, 103>>) :
                inList(noFlag(f), dparser.flags)
          /\ \A i \in bodyLinesOf(sourceLines(mcalls[c].file)) :
                ~lineTaken(sourceLines(mcalls[c].file), i)
          /\ ~fileMatched(mcalls[c].file)

----------------------------------------------------------------------------
(* C16.                                                                   *)

\* the last call was decompile, on a blob whose header version is not 1
decompiledOtherVersion ==
    /\ tops # <<>>
    /\ tops[Len(tops)].op = "decompile"
    /\ tdata[1] * 256 + tdata[2] # 1

\* C16: decompile of a blob whose header version is not 1 ends in an error
\* and leaves the subtable list of the table as it was.
C16_UnknownVersionRejected ==
    decompiledOtherVersion => terr # "" /\ tpuaa = tpuaaBefore

\* such a blob was decompiled into a table that holds subtables
C16_Witness ==
    /\ decompiledOtherVersion
    /\ tpuaaBefore # <<>>
    /\ terr = "ValueError"

----------------------------------------------------------------------------
(* C17.                                                                   *)

\* a line whose code-point field int() cannot read
lineUnparsed(line) ==
    splitLine(line) # NoFields /\ ~splitRange(splitLine(line)[1]).ok

\* compilePUAA was called and scanned the directory, where a file of a
\* codec holds such a line
scannedUnparsed ==
    /\ Len(tops) = 1
    /\ tops[1].op = "compilePUAA"
    /\ \E k \in 1..Len(tpaths.paths) : isdir(tpaths.paths[k])
    /\ \E n \in 1..Len(tpaths.listing) :
          /\ tpaths.listing[n][1] # 46
          /\ getCodec(tpaths.listing[n]) # None
          /\ \E i \in 1..Len(linesAt(pathJoin(ucd, tpaths.listing[n]))) :
                lineUnparsed(linesAt(pathJoin(ucd, tpaths.listing[n]))[i])

\* C17: when compilePUAA scans a directory and a file of a recognized codec
\* holds a line that cannot be parsed, compilation ends in an error instead
\* of producing a table.
C17_UnparsedLineAborts ==
    scannedUnparsed => terr # ""

----------------------------------------------------------------------------
(* C18.                                                                   *)

\* compilePUAA was called with a path the caller named that is a file of
\* no codec
namedUnknown ==
    /\ Len(tops) = 1
    /\ tops[1].op = "compilePUAA"
    /\ \E k \in 1..Len(tpaths.paths) :
          /\ ~isdir(tpaths.paths[k])
          /\ tpaths.paths[k] \in FilePaths
          /\ getCodec(basename(tpaths.paths[k])) = None

\* compilePUAA was called with the directory alone, which holds a file of
\* no codec
scannedUnknown ==
    /\ Len(tops) = 1
    /\ tops[1].op = "compilePUAA"
    /\ tpaths.paths = <<ucd>>
    /\ \E n \in 1..Len(tpaths.listing) : getCodec(tpaths.listing[n]) = None

\* C18: a file whose basename matches no codec is a hard error when the
\* caller named its path, and is passed over silently when it was found
\* while scanning a directory.
C18_UnknownCodec ==
    /\ namedUnknown => terr # ""
    /\ scannedUnknown => terr = ""

----------------------------------------------------------------------------
(* C19.                                                                   *)

\* a category codec compiled a file into the empty table, and then
\* decompiled the table
categoryRoundTrip ==
    /\ Len(tops) = 2
    /\ tops[1] = [op |-> "codec.compile", name |-> GraphemeBreakProperty_txt]
    /\ tops[2].op = "codec.decompile"

\* the values of the code points of the subtable the codec compiled
categoryMap ==
    mapFromEntries(
        tpuaa[subtableIndex(tpuaa, Grapheme_Cluster_Break)].entries)

\* where the maximal runs of one value begin; a run ends with its plane
categoryRunStarts ==
    {cp \in DOMAIN categoryMap :
        \/ (cp - 1) \notin DOMAIN categoryMap
        \/ categoryMap[cp - 1] # categoryMap[cp]
        \/ cp % 65536 = 0}

\* C19: for every file a category codec compiled, whatever category values
\* its lines carry, decompile completes without error and emits one line
\* per maximal run.
C19_CategoryDecompiles ==
    categoryRoundTrip /\ subtableIndex(tpuaa, Grapheme_Cluster_Break) # 0 =>
        /\ terr = ""
        /\ Len(tout) = Cardinality(categoryRunStarts)

----------------------------------------------------------------------------
(* C20.                                                                   *)

\* UnicodeDataCodec compiled the line of F1900, the table was compiled, and
\* the blob was decompiled into a new table
unicodeDataRoundTrip ==
    /\ Len(tops) = 3
    /\ tops[1] = [op |-> "codec.compile", name |-> UnicodeData_txt]
    /\ tops[2].op = "compile"
    /\ tops[3].op = "decompile"
    /\ terr = ""
    /\ tpuaaBefore = <<>>

\* puaa.propertyValue(propertyName, 0xF1900)
valueAtF1900(propertyName) == PuaaTable_propertyValue(tpuaa, propertyName,
      989440)

\* C20 as stated: after the round trip, Name is SITELEN PONA A and
\* General_Category is Lo at 0xF1900, and every other property of
\* UnicodeData.txt has no value there.
C20_OnlyNameAndCategory ==
    unicodeDataRoundTrip =>
        /\ valueAtF1900(<<78, 97, 109, 101>>) = <<83, 73, 84, 69, 76, 69, 78,
              32, 80, 79, 78, 65, 32, 65>>
        /\ valueAtF1900(<<71, 101, 110, 101, 114, 97, 108, 95, 67, 97, 116,
              101, 103, 111, 114, 121>>) = <<76, 111>>
        /\ \A k \in 3..Len(UnicodeDataProperties) :
              valueAtF1900(UnicodeDataProperties[k]) = None

\* C20, amended: Name is SITELEN PONA A, General_Category is Lo,
\* Canonical_Combining_Class is 0, Bidi_Class is L and Bidi_Mirrored is N at
\* 0xF1900, and the other nine properties have no value there.
C20_FilledColumns ==
    unicodeDataRoundTrip =>
        /\ valueAtF1900(<<78, 97, 109, 101>>) = <<83, 73, 84, 69, 76, 69, 78,
              32, 80, 79, 78, 65, 32, 65>>
        /\ valueAtF1900(<<71, 101, 110, 101, 114, 97, 108, 95, 67, 97, 116,
              101, 103, 111, 114, 121>>) = <<76, 111>>
        /\ valueAtF1900(<<67, 97, 110, 111, 110, 105, 99, 97, 108, 95, 67,
              111, 109, 98, 105, 110, 105, 110, 103, 95, 67, 108, 97, 115,
                    115>>) = <<48>>
        /\ valueAtF1900(<<66, 105, 100, 105, 95, 67, 108, 97, 115,
              115>>) = <<76>>
        /\ valueAtF1900(<<66, 105, 100, 105, 95, 77, 105, 114, 114, 111, 114,
              101, 100>>) = <<78>>
        /\ \A k \in {5, 6, 7, 8, 10, 11, 12, 13, 14} :
              valueAtF1900(UnicodeDataProperties[k]) = None

\* the round trip of the one line was made and the name came back
C20_Witness ==
    /\ unicodeDataRoundTrip
    /\ Len(tpuaa) = 5
    /\ valueAtF1900(<<78, 97, 109, 101>>) = <<83, 73, 84, 69, 76, 69, 78, 32,
          80, 79, 78, 65, 32, 65>>
    /\ PuaaTable_propertyValue(tpuaa, <<78, 97, 109, 101>>, 989441) = None

----------------------------------------------------------------------------
(* Properties of the entries made from a map.                              *)

\* the code points looked up: those of the maps, and one on either side
MapCodePoints == 65533..65538

\* whether the lookup of the property Name in the subtables gives, at every
\* code point, the value the map has there, and None where it has none
looksUpAsMap(subtables, m) ==
    \A cp \in MapCodePoints :
        PuaaTable_propertyValue(subtables, sName, cp)
            = IF cp \in DOMAIN m THEN m[cp] ELSE None

\* C21: for every map m from code points to non-empty names, the subtable
\* that entriesFromNameMap(m) was appended to looks up m[cp] at every cp of
\* m and None elsewhere, and so does the table decompiled from its blob:
\* the compile does not fail.
C21_NameMapLookup ==
    gmCall = "entriesFromNameMap" =>
        /\ looksUpAsMap(gmTable, gmMap)
        /\ gmPc # "failed"
        /\ gmPc = "decompiled" => looksUpAsMap(gmFresh, gmMap)

\* the entries of the one subtable of the table filled from a map
mapEntries == IF gmTable = <<>> THEN <<>> ELSE gmTable[1].entries

\* whether the map has value v at cp
mapHas(m, cp, v) == cp \in DOMAIN m /\ m[cp] = v

\* whether a Single entry covers a maximal run of equal values of m inside
\* one plane
isMaximalRun(e, m) ==
    /\ \A cp \in e.firstCodePoint..e.lastCodePoint : mapHas(m, cp, e.value)
    /\ \/ e.firstCodePoint % 65536 = 0
       \/ ~mapHas(m, e.firstCodePoint - 1, e.value)
    /\ \/ e.lastCodePoint % 65536 = 65535
       \/ ~mapHas(m, e.lastCodePoint + 1, e.value)

\* C22: for every map m from code points to non-empty strings,
\* entriesFromStringMap(m) returns Single and Multiple entries in ascending
\* order with disjoint ranges, whose lookup is m[cp] at every cp of m and
\* None elsewhere; a Single entry covers a maximal run of equal values
\* inside one plane, a Multiple entry has first < last and last-first+1
\* values, and no entry crosses a plane boundary.
C22_StringMapEntries ==
    gmCall = "entriesFromStringMap" =>
        /\ looksUpAsMap(gmTable, gmMap)
        /\ \A i \in 1..Len(mapEntries) :
              LET e == mapEntries[i]
              IN  /\ e.type \in {SINGLE, MULTIPLE}
                  /\ e.firstCodePoint <= e.lastCodePoint
                  /\ e.firstCodePoint \div 65536 = e.lastCodePoint \div 65536
                  /\ i > 1 =>
                        mapEntries[i - 1].lastCodePoint < e.firstCodePoint
                  /\ e.type = SINGLE => isMaximalRun(e, gmMap)
                  /\ e.type = MULTIPLE =>
                        /\ e.firstCodePoint < e.lastCodePoint
                        /\ Len(e.value)
                               = e.lastCodePoint - e.firstCodePoint + 1

\* a map with one value on both sides of the plane boundary has been made
\* into entries, one of them a Single entry ending at U+FFFF, and one with
\* two values next to each other into a Multiple entry
C22_Witness ==
    /\ gmCall = "entriesFromStringMap"
    /\ gmPc = "filled"
    /\ \E i \in 1..Len(mapEntries) :
          /\ mapEntries[i].type = SINGLE
          /\ mapEntries[i].firstCodePoint = 65534
          /\ mapEntries[i].lastCodePoint = 65535
          /\ mapHas(gmMap, 65536, mapEntries[i].value)
    /\ \E i \in 1..Len(mapEntries) :
          /\ mapEntries[i].type = MULTIPLE
          /\ mapEntries[i].firstCodePoint = 65536

\* the entries runsFromEntries was given, and the runs it returned
givenEntries == gmTable[gmRuns.subtable].entries
returnedRuns == gmRuns.runs

\* the code points the entries cover
coveredCodePoints(entries) ==
    UNION {entries[i].firstCodePoint..entries[i].lastCodePoint :
              i \in 1..Len(entries)}

\* the property map of the entries: the value the lookup gives at cp
propertyMapValue(entries, cp) ==
    PuaaSubtable_propertyValue([propertyName |-> sName, entries |-> entries],
                               cp)

\* C23: for every entry list E, runsFromEntries(E) returns Single runs in
\* ascending order with disjoint ranges, none crossing a plane boundary;
\* every cp that has a value in the property map of E lies in exactly one
\* run, which has that value, no run covers another cp, and two runs next
\* to each other in one plane have different values.
C23_RunsCoverMap ==
    gmPc = "runs" =>
        LET rs == returnedRuns
            covered(cp) == {i \in 1..Len(rs) : contains(rs[i], cp)}
        IN  /\ \A i \in 1..Len(rs) :
                  /\ rs[i].type = SINGLE
                  /\ rs[i].firstCodePoint <= rs[i].lastCodePoint
                  /\ rs[i].firstCodePoint \div 65536
                         = rs[i].lastCodePoint \div 65536
                  /\ i > 1 => rs[i - 1].lastCodePoint < rs[i].firstCodePoint
                  /\ i > 1 /\ rs[i - 1].lastCodePoint + 1 = rs[i].firstCodePoint
                           /\ rs[i].firstCodePoint % 65536 # 0
                        => rs[i - 1].value # rs[i].value
            /\ \A cp \in coveredCodePoints(givenEntries)
                              \cup coveredCodePoints(rs) :
                  IF propertyMapValue(givenEntries, cp) = None
                  THEN covered(cp) = {}
                  ELSE /\ Cardinality(covered(cp)) = 1
                       /\ \A i \in covered(cp) :
                             rs[i].value = propertyMapValue(givenEntries, cp)


\* what a line of a Unihan file gives: the property map holding its one
\* value, or no map
lineGives(line) == unihanLine(<<>>, line)

\* the value the file gives the property at the code point, which is that
\* of the last line giving one, or None
fileValue(f, prop, cp) ==
    LET gives(i) == /\ lineGives(f[i]) # <<>>
                    /\ lineGives(f[i])[1].prop = prop
                    /\ cp \in DOMAIN lineGives(f[i])[1].m
        given == {i \in 1..Len(f) : gives(i)}
        last == CHOOSE i \in given : \A j \in given : j <= i
    IN  IF given = {} THEN None ELSE lineGives(f[last])[1].m[cp]

\* whether a text of digits, without a sign, is at most the other one of
\* the same length
digitsAtMost(s, t) ==
    \/ s = t
    \/ \E i \in 1..Len(s) : s[i] < t[i] /\ \A j \in 1..(i - 1) : s[j] = t[j]

\* the base-10 text of a natural number at most that of the text top
isNaturalText(s, top) ==
    /\ s # <<>>
    /\ \A i \in 1..Len(s) : s[i] \in 48..57
    /\ s[1] = 48 => Len(s) = 1
    /\ Len(s) <= Len(top)
    /\ Len(s) = Len(top) => digitsAtMost(s, top)

\* the base-10 text of a signed 32-bit integer
isDecimalText(s) ==
    \/ isNaturalText(s, <<50, 49, 52, 55, 52, 56, 51, 54, 52, 55>>)
    \/ /\ s # <<>> /\ s[1] = 45
       /\ isNaturalText(Tail(s), <<50, 49, 52, 55, 52, 56, 51, 54, 52, 56>>)
       /\ Tail(s) # <<48>>

\* the upper-case hexadecimal text of an unsigned 32-bit integer, padded
\* with zeros to four digits
isHexText(s) ==
    /\ Len(s) \in 4..8
    /\ \A i \in 1..Len(s) : s[i] \in (48..57) \cup (65..70)
    /\ Len(s) > 4 => s[1] # 48

\* the properties and the code points of the Unihan files
UnihanProperties == {<<107, 65>>, <<107, 66>>}
UnihanCodePoints == 65534..65538

\* the values the file gives the property
fileValues(f, prop) ==
    {fileValue(f, prop, cp) : cp \in UnihanCodePoints} \ {None}

\* the types of the entries of the property in the subtables
entryTypes(subtables, prop) ==
    LET i == subtableIndex(subtables, prop)
    IN  IF i = 0 THEN {}
        ELSE {subtables[i].entries[k].type : k \in 1..Len(subtables[i].entries)}

\* C24: for every property of a Unihan file, PuaaUnihanCodec.compile makes
\* Decimal entries exactly when every value of the property is the base-10
\* text of a signed 32-bit integer, otherwise Hexadecimal and HexMultiple
\* entries exactly when every value is the upper-case hexadecimal text,
\* zero-padded to four digits, of an unsigned 32-bit integer, otherwise
\* the Single and Multiple entries of a name map; and the lookup of every
\* code point gives the value text as the file has it.
C24_UnihanEntryKinds ==
    gmCall = "PuaaUnihanCodec" =>
        \A prop \in UnihanProperties :
            LET vs == fileValues(gmFile, prop)
                ts == entryTypes(gmTable, prop)
                dec == \A v \in vs : isDecimalText(v)
                hex == \A v \in vs : isHexText(v)
            IN  /\ vs # {} => ts # {}
                /\ ts \subseteq (IF dec THEN {DECIMAL}
                                 ELSE IF hex THEN {HEXADECIMAL, HEXMULTIPLE}
                                 ELSE {SINGLE, MULTIPLE})
                /\ \A cp \in UnihanCodePoints :
                       PuaaTable_propertyValue(gmTable, prop, cp)
                           = fileValue(gmFile, prop, cp)

\* a file was compiled whose property kA is made Hexadecimal entries while
\* its property kB is made Decimal ones, and the table has been compiled
\* and decompiled
C24_Witness ==
    /\ gmCall = "PuaaUnihanCodec"
    /\ gmPc = "decompiled"
    /\ entryTypes(gmTable, <<107, 65>>) \subseteq {HEXADECIMAL, HEXMULTIPLE}
    /\ entryTypes(gmTable, <<107, 65>>) # {}
    /\ entryTypes(gmTable, <<107, 66>>) = {DECIMAL}


\* the integers of [-2^31, 2^31) and those of [0, 2^32)
inSigned32(v) == LessInt(U32(-32769, 65535), v) /\ LessInt(v, INT_MIN)
inUnsigned32(v) == LessInt(U32(-1, 65535), v) /\ LessInt(v, U32(65536, 0))

\* whether two integers are the same modulo 2^32
sameBits(a, b) == a.lo = b.lo /\ a.hi % 65536 = b.hi % 65536

\* the value of the one Decimal entry of a decompiled table
decimalValue(subtables) == subtables[1].entries[1].value

\* C25: signedToUnsigned32 and unsignedToSigned32 are inverse conversions
\* in two's complement: a v of [-2^31, 2^31) is made a u of [0, 2^32) with
\* the same bits, from which unsignedToSigned32 gives v again; a u of
\* [0, 2^32) is made a v of [-2^31, 2^31), from which signedToUnsigned32
\* gives u again; any other argument raises OverflowError; and the compile
\* of a Decimal entry whose value is outside [-2^31, 2^31) fails with it,
\* while one inside is decompiled to the same value.
C25_ConversionsInverse ==
    /\ cvCall = "signedToUnsigned32" =>
           IF inSigned32(cvIn)
           THEN /\ cvErr = ""
                /\ inUnsigned32(cvOut) /\ sameBits(cvOut, cvIn)
                /\ cvPc = "back" => cvBack = cvIn
           ELSE cvPc = "failed" /\ cvErr = "OverflowError"
    /\ cvCall = "unsignedToSigned32" =>
           IF inUnsigned32(cvIn)
           THEN /\ cvErr = ""
                /\ inSigned32(cvOut) /\ sameBits(cvOut, cvIn)
                /\ cvPc = "back" => cvBack = cvIn
           ELSE cvPc = "failed" /\ cvErr = "OverflowError"
    /\ cvCall = "DecimalEntry" =>
           IF inSigned32(cvIn)
           THEN /\ cvErr = ""
                /\ cvPc = "back" => decimalValue(cvBack) = cvIn
           ELSE cvPc = "failed" /\ cvErr = "OverflowError" /\ cvOut = <<>>

\* -1 has been converted to 0xFFFFFFFF and back
C25_Witness ==
    /\ cvCall = "signedToUnsigned32"
    /\ cvPc = "back"
    /\ cvIn = U32(-1, 65535)
    /\ cvOut = UINT_MAX
    /\ cvBack = cvIn


\* a payload as the directory has to describe it: that of head with its
\* bytes 8 to 11 zero, any other as it is
payloadRecorded(t) ==
    IF t.tag = HEAD
    THEN [k \in 1..Len(t.data) |-> IF k \in 9..12 THEN 0 ELSE t.data[k]]
    ELSE t.data

\* the record of the tag in the directory of the font f
recordOf(f, tag) ==
    ttfDirectory(f)[CHOOSE i \in 1..ttfNumTables(f) : ttfDirectory(f)[i].tag = tag]

\* the sum modulo 2^32 of the big-endian words of f
wordSum(f) == chksumWords(f, 0, Len(f) \div 4)

\* C26: once setData calls that returned True are followed by a write, the
\* directory of the written file has, for every table, the checksum of the
\* table's payload as the calls left it (bytes 8 to 11 of head taken as
\* zero) and the length of that payload, and with a head table the words
\* of the file add up to 0xB1B0AFBA.
C26_WriteAfterSetData ==
    hkPc = "written" =>
        /\ ttfNumTables(hkFiles[OutPath]) = Len(hkBefore.tables)
        /\ \A i \in 1..Len(hkBefore.tables) :
               /\ recordOf(hkFiles[OutPath], hkBefore.tables[i].tag).checksum
                      = chksum(payloadRecorded(hkBefore.tables[i]))
               /\ recordOf(hkFiles[OutPath], hkBefore.tables[i].tag).length
                      = IntOf(Len(hkBefore.tables[i].data))
        /\ tableIndex(hkBefore.tables, HEAD) # 0 =>
               /\ Len(hkFiles[OutPath]) % 4 = 0
               /\ wordSum(hkFiles[OutPath]) = CHKSUM

\* the number of bytes of s.encode('utf8')
utf8Length(s) ==
    Len(s) + Cardinality({i \in 1..Len(s) : s[i] >= 128})
           + Cardinality({i \in 1..Len(s) : s[i] >= 2048})
           + Cardinality({i \in 1..Len(s) : s[i] >= 65536})

\* the strings an entry made from a map holds
stringValues(e) ==
    IF e.type = SINGLE THEN {e.value}
    ELSE {e.value[k] : k \in 1..Len(e.value)}

\* C27: for every name map given to entriesFromNameMap whose values are at
\* most 510 bytes long in UTF-8, every string of every returned entry is
\* at most 255 bytes long, so that compile can store it behind a length of
\* one byte.
C27_NameValuesFit ==
    /\ gmCall = "entriesFromNameMap"
    /\ \A cp \in DOMAIN gmMap : utf8Length(gmMap[cp]) <= 510
    => \A i \in 1..Len(mapEntries) :
          \A v \in stringValues(mapEntries[i]) : utf8Length(v) <= 255

----------------------------------------------------------------------------
(* C28: unsaved modifications are neither replaced nor dropped silently.   *)

\* a setter succeeded at some call of the log and no later of= wrote the font
unsaved(log) ==
    \E i \in 1..Len(log) :
        /\ log[i] = "set"
        /\ \A j \in (i + 1)..Len(log) : log[j] # "written"

\* main prints cmd.error when it is true: a message that is not empty
reported(error) == error # None /\ error # False /\ error # <<>>

\* C28: for every argument sequence given to the CommandProcessor, no if=
\* loads a font while the font loaded before has modifications no of= has
\* written, and when a setter succeeded and no later of= wrote the font,
\* close() leaves a non-empty error message to report.
C28_NoSilentDrop ==
    /\ \A k \in 1..Len(hkLog) :
           hkLog[k] = "loaded" => ~unsaved(SubSeq(hkLog, 1, k - 1))
    /\ (hkPc = "closed" /\ unsaved(hkLog)) => reported(hkError)

\* the first half alone: if= never replaces a font with unsaved modifications
T28_NeverReplaced ==
    \A k \in 1..Len(hkLog) :
        hkLog[k] = "loaded" => ~unsaved(SubSeq(hkLog, 1, k - 1))

\* the second half for the runs in which help was not asked for
T28_ReportedWithoutHelp ==
    (hkPc = "closed" /\ unsaved(hkLog) /\ hkError # False) => reported(hkError)


\* C29: every call of compile() after the first, with nothing done to the
\* table in between, returns the bytes the first call returned, or ends in
\* the exception the first call ended in.
C29_CompileRepeatable ==
    \A i \in 1..Len(agBlobs) : agBlobs[i] = data /\ agErrs[i] = err

\* a table with an empty subtable and with entries out of order, which the
\* first compile removed and sorted, has been compiled three times
C29_Witness ==
    /\ Len(agBlobs) = 2
    /\ err = ""
    /\ Len(table) < Len(tableBefore)
    /\ \E i \in 1..Len(table), j \in 1..Len(tableBefore) :
           /\ table[i].propertyName = tableBefore[j].propertyName
           /\ table[i].entries # tableBefore[j].entries


\* whether the bytes are those of a font with a PUAA table
hasPUAA(f) ==
    f # None /\ \E i \in 1..ttfNumTables(f) : ttfDirectory(f)[i].tag = PUAA

\* C30: when the file of the properties has no PUAA table, every file that
\* had a PUAA table before the copy command has one after it.
C30_CopyKeepsPUAA ==
    (/\ cpPc # "files"
     /\ Len(cpArgs.dataFiles) = 1
     /\ cpBefore[cpArgs.dataFiles[1]] # None
     /\ ~hasPUAA(cpBefore[cpArgs.dataFiles[1]]))
        => \A n \in CopyNames : hasPUAA(cpBefore[n]) => hasPUAA(cpFiles[n])

=============================================================================
